---- MODULE Spec2Model ----
(***************************************************************************)
(* A model of the data-acquisition and caching layer of CryptoDashboard:   *)
(*   src/crypto_api.py  CoinGeckoAPI: rate limiter, retrying transport and *)
(*                      the market data client built on them               *)
(*   src/app.py         the loaders (load_current_prices, ...)             *)
(*   src/database.py    DatabaseManager, the cache store                   *)
(*                                                                         *)
(* Time is counted in tenths of a second (1.1 s = 11), so that the rate    *)
(* limiter's interval, the backoff sleeps and the loader's freshness       *)
(* window share one clock, `now`.                                          *)
(*                                                                         *)
(* Specifications:                                                         *)
(*   SpecApi      one caller driving the client's operations, each through *)
(*                the transport's retry loop and the rate limiter          *)
(*   SpecLimiter  several threads in _rate_limit_delay of the one client   *)
(*   SpecLoader   load_current_prices over the cache store, the client     *)
(*                seen as its outcomes; SpecLoaderUtc: the same, UTC host  *)
(***************************************************************************)
EXTENDS Integers, Sequences, FiniteSets, TLC

VARIABLES
    now,                \* time.time() / datetime.utcnow(), in tenths of a second
    last_request_time,  \* CoinGeckoAPI.last_request_time
    prev_request_time,  \* history: last_request_time before the latest slot
    slots,              \* history: number of slots the rate limiter granted
    slotHeld,           \* a slot was acquired and no request has used it yet
    op,                 \* the client operation in progress: [name, arg]
    opPc,               \* its position: "idle", "await1", "await2", "returned"
    opResult,           \* what the operation returned or raised
    crypto_data,        \* get_trading_pairs' local: the /simple/price body
    exchange_data,      \* get_trading_pairs' local: the /exchange_rates body
    http,               \* history: the outbound HTTP calls of this operation
    pc,                 \* _make_request_with_retry: "none", "for", "get", "resp", "ret"
    url,                \* its url argument
    attempt,            \* its loop variable
    resp,               \* outcome of the session.get of this attempt
    outcomes,           \* history: the outcomes of its attempts, in order
    backoffs,           \* history: its backoff sleeps (tenths), in order
    tresult,            \* what it returned or raised
    trading_pairs,      \* get_trading_pairs' local dict
    \* -- the rate limiter shared by concurrent callers (SpecLimiter)
    tpc,                \* per thread: its line in _rate_limit_delay
    current_time,       \* per thread: its local current_time
    time_since_last,    \* per thread: its local time_since_last
    wake_at,            \* per thread: when its time.sleep returns
    calls,              \* per thread: calls of _rate_limit_delay completed
    grants,             \* history: the times recorded at line 32, in order
    \* -- the loader and the cache store (SpecLoader)
    tz,                 \* the process's local time minus UTC
    db,                 \* get_database_manager() returned a DatabaseManager
    use_database,       \* st.session_state.use_database
    coin_prices,        \* table coin_prices, in insertion order
    memo,               \* st.cache_data's entries of load_current_prices
    loads,              \* calls of load_current_prices so far
    load,               \* history: what the latest call did and returned
    \* -- one session's page runs of main (SpecPage)
    trading_pairs_table,\* table trading_pairs, in insertion order
    user_preferences,   \* table user_preferences: session_id -> its row
    pairs_memo,         \* st.cache_data's entry of load_trading_pairs
    pairs_load,         \* history: what the latest load_trading_pairs did
    page,               \* the run of the script: position, locals, history
    db_inits,           \* history: times DatabaseManager() was constructed
    \* -- the mutating calls of DatabaseManager (SpecStore)
    utc_day,            \* datetime.utcnow().day
    tables,             \* the committed rows of the five tables
    session,            \* the SQLAlchemy session of the call in progress
    store_call,         \* history: the latest call, its statements and outcome
    store_calls,        \* calls so far
    \* -- the coins selected in the sidebar and their uses (SpecSelection)
    selection,          \* main's position, the multiselect's value, the lists used
    \* -- st.cache_data around the four loaders (SpecMemo)
    cache_data,         \* its entries: <<loader, arguments>> -> [at, value]
    memo_call,          \* history: the latest call of a loader
    memo_calls          \* calls so far

apiVars == <<now, last_request_time, prev_request_time, slots, slotHeld, op, opPc,
             opResult, crypto_data, exchange_data, http, pc, url, attempt, resp,
             outcomes, backoffs, tresult, trading_pairs>>

limiterVars == <<tpc, current_time, time_since_last, wake_at, calls, grants>>

loaderVars == <<tz, db, use_database, coin_prices, memo, loads, load>>

pageVars == <<trading_pairs_table, user_preferences, pairs_memo, pairs_load, page,
              db_inits>>

storeVars == <<utc_day, tables, session, store_call, store_calls>>

selectionVars == <<selection>>

memoVars == <<cache_data, memo_call, memo_calls>>

vars == <<apiVars, limiterVars, loaderVars, pageVars, storeVars, selectionVars, memoVars>>

(***************************************************************************)
(* Bounds of the model and constants of the program.                       *)
(***************************************************************************)
MaxLatency == 1         \* time.sleep(d) returns after d .. d + MaxLatency
MaxReqDuration == 2     \* a session.get takes 0 or MaxReqDuration tenths
StartTime == 20         \* the clock when the operation starts
MaxInitAge == 11        \* the age of the last request when the operation starts

MinRequestInterval == 11        \* min_request_interval = 1.1 s
MaxRetries == 3                 \* max_retries: int = 3
RateLimitBackoffSeconds == 5    \* wait_time = 2 ** attempt * 5

Tenths(seconds) == 10 * seconds

Latency == 0..MaxLatency
ReqDurations == {0, MaxReqDuration}

\* What one session.get can come to: a 2xx answer, a 429 answer, or a
\* requests.exceptions.RequestException (connection error, timeout, or the
\* HTTPError raise_for_status raises on another non-2xx status).
Outcomes == {"ok", "429", "err"}

NoResult == [kind |-> "none"]
NoOp == [name |-> "none", arg |-> "none"]

(***************************************************************************)
(* Rate limiter: CoinGeckoAPI._rate_limit_delay.                           *)
(***************************************************************************)
\* A slip in line 31: sleeping for the time elapsed, not the time remaining.
RateLimitSleepElapsed(since_last) ==
    IF since_last < MinRequestInterval
    THEN since_last
    ELSE 0

\* The argument of time.sleep at line 31, or 0 when the branch is not taken.
RateLimitSleep(since_last) ==
    IF since_last < MinRequestInterval
    THEN MinRequestInterval - since_last
    ELSE 0

\* The single caller's _rate_limit_delay, as one step. time.sleep(d) returns
\* d or up to MaxLatency more after it was called; line 32 reads the clock
\* again and records that reading.
RateLimitDelay ==
    \E late \in Latency :
        LET d == RateLimitSleep(now - last_request_time)
            woke == IF d > 0 THEN now + d + late ELSE now
        IN  /\ now' = woke
            /\ prev_request_time' = last_request_time
            /\ last_request_time' = woke
            /\ slots' = slots + 1
            /\ slotHeld' = TRUE

(***************************************************************************)
(* Retrying transport: CoinGeckoAPI._make_request_with_retry.              *)
(***************************************************************************)
\* The call itself: enter the for loop with attempt = 0.
MakeRequestWithRetry(u) ==
    /\ pc' = "for"
    /\ url' = u
    /\ attempt' = 0
    /\ resp' = "none"
    /\ outcomes' = <<>>
    /\ backoffs' = <<>>
    /\ tresult' = NoResult

\* A slip in line 39: range(max_retries + 1).
AcquireSlotOneMore ==
    /\ pc = "for"
    /\ attempt <= MaxRetries
    /\ RateLimitDelay
    /\ pc' = "get"
    /\ UNCHANGED <<op, opPc, opResult, crypto_data, exchange_data, http, url,
                   attempt, resp, outcomes, backoffs, tresult, trading_pairs>>

\* for attempt in range(max_retries): self._rate_limit_delay()
AcquireSlot ==
    /\ pc = "for"
    /\ attempt < MaxRetries
    /\ RateLimitDelay
    /\ pc' = "get"
    /\ UNCHANGED <<op, opPc, opResult, crypto_data, exchange_data, http, url, attempt, resp,
                   outcomes, backoffs, tresult, trading_pairs>>

\* A slip after the loop: no raise at line 57.
RaiseMaxRetriesMissing == FALSE

\* The loop ran out: raise Exception("Max retries exceeded")
RaiseMaxRetries ==
    /\ pc = "for"
    /\ attempt >= MaxRetries
    /\ tresult' = [kind |-> "raised", line |-> 57, attempts |-> Len(outcomes),
                   cause |-> "none", endpoint |-> "none"]
    /\ pc' = "ret"
    /\ UNCHANGED <<now, last_request_time, prev_request_time, slots, slotHeld, op,
                   opPc, opResult, crypto_data, exchange_data, http, url, attempt, resp, outcomes,
                   backoffs, trading_pairs>>

\* response = self.session.get(url, params=params, timeout=15)
SessionGet ==
    /\ pc = "get"
    /\ \E o \in Outcomes, d \in ReqDurations :
        /\ now' = now + d
        /\ resp' = o
        /\ outcomes' = Append(outcomes, o)
        /\ http' = http \cup {[endpoint |-> url, via |-> "retry", slot |-> slotHeld,
                               outcome |-> o]}
    /\ slotHeld' = FALSE
    /\ pc' = "resp"
    /\ UNCHANGED <<last_request_time, prev_request_time, slots, op, opPc, opResult,
                   crypto_data, exchange_data, url, attempt, backoffs, tresult, trading_pairs>>

\* A slip in line 45: 2 * attempt * 5.
BackoffRateLimitedLinear(a) == Tenths((2 * a) * RateLimitBackoffSeconds)

\* if response.status_code == 429: time.sleep(2 ** attempt * 5); continue
BackoffRateLimited(a) == Tenths((2 ^ a) * RateLimitBackoffSeconds)

Handle429 ==
    /\ pc = "resp"
    /\ resp = "429"
    /\ now' = now + BackoffRateLimited(attempt)
    /\ backoffs' = Append(backoffs, BackoffRateLimited(attempt))
    /\ attempt' = attempt + 1
    /\ pc' = "for"
    /\ UNCHANGED <<last_request_time, prev_request_time, slots, slotHeld, op, opPc,
                   opResult, crypto_data, exchange_data, http, url, resp, outcomes, tresult,
                   trading_pairs>>

\* response.raise_for_status(); return response.json()
HandleOk ==
    /\ pc = "resp"
    /\ resp = "ok"
    /\ tresult' = [kind |-> "ok", line |-> 50, attempts |-> Len(outcomes),
                   cause |-> "none", endpoint |-> "none"]
    /\ pc' = "ret"
    /\ UNCHANGED <<now, last_request_time, prev_request_time, slots, slotHeld, op,
                   opPc, opResult, crypto_data, exchange_data, http, url, attempt, resp, outcomes,
                   backoffs, trading_pairs>>

\* except requests.exceptions.RequestException as e:
\*     if attempt == max_retries - 1: raise Exception(f"... {str(e)}")
\*     time.sleep(2 ** attempt)
\* The message is built from max_retries and str(e) alone; whether str(e)
\* names the url is up to the exception raised, so either can happen.
BackoffFailed(a) == Tenths(2 ^ a)

HandleRequestException ==
    /\ pc = "resp"
    /\ resp = "err"
    /\ IF attempt = MaxRetries - 1
       THEN /\ \E named \in {"none", url} :
                tresult' = [kind |-> "raised", line |-> 54,
                            attempts |-> Len(outcomes), cause |-> "err",
                            endpoint |-> named]
            /\ pc' = "ret"
            /\ UNCHANGED <<now, backoffs, attempt>>
       ELSE /\ now' = now + BackoffFailed(attempt)
            /\ backoffs' = Append(backoffs, BackoffFailed(attempt))
            /\ attempt' = attempt + 1
            /\ pc' = "for"
            /\ UNCHANGED tresult
    /\ UNCHANGED <<last_request_time, prev_request_time, slots, slotHeld, op, opPc,
                   opResult, crypto_data, exchange_data, http, url, resp, outcomes, trading_pairs>>

(***************************************************************************)
(* Market data client: the operations of CoinGeckoAPI.                     *)
(***************************************************************************)
Coins == {"bitcoin", "ethereum"}
PairNames == {"ETH/BTC", "BTC/ETH", "EUR/USD"}
UnsupportedPair == "XRP/USD"

\* A price is a quotient of two numbers the upstream sent, kept as <<n, d>>.
Ratio(n, d) == <<n, d>>
\* The literal 1.08
FallbackRate == Ratio(108, 100)

EmptyDict == [k \in {} |-> 0]
Put(dict, key, value) ==
    [k \in DOMAIN dict \cup {key} |-> IF k = key THEN value ELSE dict[k]]

\* Bodies of /simple/price: a dict with any of the two ids, each with its
\* usd price and, possibly, its usd_24h_change.
Absent == 0 - 999
QuoteValues == {[usd |-> 0, usd_24h_change |-> Absent],
                [usd |-> 50, usd_24h_change |-> Absent],
                [usd |-> 50, usd_24h_change |-> 1],
                [usd |-> 100, usd_24h_change |-> 3]}
CryptoBodies == UNION {[present -> QuoteValues] : present \in SUBSET Coins}

\* Bodies of /exchange_rates: without 'rates', without rates['eur'], without
\* rates['eur']['value'], or with a value.
RateValues == {-1, 0, 2, 4}
ExchangeBodies ==
    {[shape |-> s, value |-> 0] : s \in {"no_rates", "no_eur", "no_value"}}
    \cup {[shape |-> "value", value |-> v] : v \in RateValues}

\* exchange_data when the request raised, and before any request
RequestRaised == [shape |-> "raised", value |-> 0]
NoBody == [shape |-> "none", value |-> 0]

\* An operation starts from the idle caller; its own history starts empty.
BeginOp(name, arg) ==
    /\ opPc = "idle"
    /\ op' = [name |-> name, arg |-> arg]
    /\ trading_pairs' = EmptyDict
    /\ crypto_data' = EmptyDict
    /\ exchange_data' = NoBody

Return(value) ==
    /\ opPc' = "returned"
    /\ opResult' = value
    /\ pc' = "none"

Ok(value) == [kind |-> "ok", value |-> value]
Raised(message) == [kind |-> "raised", value |-> message]

\* A request made with self.session.get directly: no slot, no retry loop,
\* and last_request_time is not written.
DirectGet(log, endpoint, d, o) ==
    /\ now' = now + d
    /\ http' = log \cup {[endpoint |-> endpoint, via |-> "direct", slot |-> slotHeld,
                          outcome |-> o]}

\* ---- get_supported_coins
GetSupportedCoins ==
    /\ BeginOp("get_supported_coins", "none")
    /\ MakeRequestWithRetry("coins/markets")
    /\ opPc' = "await1"
    /\ opResult' = NoResult
    /\ http' = {}
    /\ UNCHANGED <<now, last_request_time, prev_request_time, slots, slotHeld>>

GetSupportedCoinsReturn ==
    /\ op.name = "get_supported_coins"
    /\ opPc = "await1"
    /\ pc = "ret"
    /\ Return(IF tresult.kind = "ok"
              THEN Ok("coins")
              ELSE Raised("Failed to fetch supported coins"))
    /\ UNCHANGED <<now, last_request_time, prev_request_time, slots, slotHeld, op,
                   crypto_data, exchange_data, http, url, attempt, resp, outcomes, backoffs,
                   tresult, trading_pairs>>

\* ---- get_current_prices(coin_ids)
\* Lines 87-88: if not coin_ids: return {}
NoCoinIdsNever(coin_ids) == FALSE
NoCoinIds(coin_ids) == coin_ids = {}

GetCurrentPrices ==
    \E coin_ids \in SUBSET Coins :
        /\ BeginOp("get_current_prices", coin_ids)
        /\ IF NoCoinIds(coin_ids)
           THEN /\ Return(Ok({}))
                /\ UNCHANGED <<url, attempt, resp, outcomes, backoffs, tresult>>
           ELSE /\ MakeRequestWithRetry("coins/markets")
                /\ opPc' = "await1"
                /\ opResult' = NoResult
        /\ http' = {}
        /\ UNCHANGED <<now, last_request_time, prev_request_time, slots, slotHeld>>

\* The result has an entry for every coin of the body, which the upstream chose.
GetCurrentPricesReturn ==
    /\ op.name = "get_current_prices"
    /\ opPc = "await1"
    /\ pc = "ret"
    /\ IF tresult.kind = "ok"
       THEN \E market_data \in SUBSET op.arg : Return(Ok(market_data))
       ELSE Return(Raised("Failed to fetch current prices"))
    /\ UNCHANGED <<now, last_request_time, prev_request_time, slots, slotHeld, op,
                   crypto_data, exchange_data, http, url, attempt, resp, outcomes, backoffs,
                   tresult, trading_pairs>>

\* ---- get_historical_data(coin_id)
GetHistoricalData ==
    \E coin_id \in Coins :
        /\ BeginOp("get_historical_data", coin_id)
        /\ MakeRequestWithRetry("coins/id/market_chart")
        /\ opPc' = "await1"
        /\ opResult' = NoResult
        /\ http' = {}
        /\ UNCHANGED <<now, last_request_time, prev_request_time, slots, slotHeld>>

GetHistoricalDataReturn ==
    /\ op.name = "get_historical_data"
    /\ opPc = "await1"
    /\ pc = "ret"
    /\ IF tresult.kind = "ok"
       THEN \E has_prices \in BOOLEAN :
                Return(IF has_prices
                       THEN Ok("series")
                       ELSE Raised("Failed to fetch historical data"))
       ELSE Return(Raised("Failed to fetch historical data"))
    /\ UNCHANGED <<now, last_request_time, prev_request_time, slots, slotHeld, op,
                   crypto_data, exchange_data, http, url, attempt, resp, outcomes, backoffs,
                   tresult, trading_pairs>>

\* ---- get_trading_pairs
Change(quote) == IF quote.usd_24h_change = Absent THEN 0 ELSE quote.usd_24h_change

\* A slip in line 158: BTC/ETH given the quotient of ETH/BTC.
CryptoPairsSameRatio(body) ==
    IF "bitcoin" \in DOMAIN body /\ "ethereum" \in DOMAIN body
    THEN LET btc_price_usd == body["bitcoin"].usd
             eth_price_usd == body["ethereum"].usd
             btc_change_24h == Change(body["bitcoin"])
             eth_change_24h == Change(body["ethereum"])
         IN  IF btc_price_usd > 0 /\ eth_price_usd > 0
             THEN Put(Put(EmptyDict, "ETH/BTC",
                          [price |-> Ratio(eth_price_usd, btc_price_usd),
                           change_24h |-> eth_change_24h - btc_change_24h,
                           base |-> "Ethereum", quote |-> "Bitcoin"]),
                      "BTC/ETH",
                      [price |-> Ratio(eth_price_usd, btc_price_usd),
                       change_24h |-> btc_change_24h - eth_change_24h,
                       base |-> "Bitcoin", quote |-> "Ethereum"])
             ELSE EmptyDict
    ELSE EmptyDict

\* Lines 138-163: the two crypto pairs, when both ids are in the body and
\* both prices are positive.
CryptoPairs(body) ==
    IF "bitcoin" \in DOMAIN body /\ "ethereum" \in DOMAIN body
    THEN LET btc_price_usd == body["bitcoin"].usd
             eth_price_usd == body["ethereum"].usd
             btc_change_24h == Change(body["bitcoin"])
             eth_change_24h == Change(body["ethereum"])
         IN  IF btc_price_usd > 0 /\ eth_price_usd > 0
             THEN Put(Put(EmptyDict, "ETH/BTC",
                          [price |-> Ratio(eth_price_usd, btc_price_usd),
                           change_24h |-> eth_change_24h - btc_change_24h,
                           base |-> "Ethereum", quote |-> "Bitcoin"]),
                      "BTC/ETH",
                      [price |-> Ratio(btc_price_usd, eth_price_usd),
                       change_24h |-> btc_change_24h - eth_change_24h,
                       base |-> "Bitcoin", quote |-> "Ethereum"])
             ELSE EmptyDict
    ELSE EmptyDict

FallbackPair == [price |-> FallbackRate, change_24h |-> 0,
                 base |-> "Euro", quote |-> "US Dollar"]

\* Lines 171-188, with the KeyError of a missing 'value' caught at line 189.
FiatPairs(pairs, body) ==
    IF body.shape \in {"no_rates", "no_eur"}
    THEN Put(pairs, "EUR/USD", FallbackPair)
    ELSE IF body.shape = "no_value"
    THEN Put(pairs, "EUR/USD", FallbackPair)
    ELSE LET usd_eur_rate == body.value
         IN  IF usd_eur_rate > 0
             THEN Put(pairs, "EUR/USD",
                      [price |-> Ratio(1, usd_eur_rate), change_24h |-> 0,
                       base |-> "Euro", quote |-> "US Dollar"])
             ELSE pairs

\* A slip in lines 189-196: the except clause passes, with no fallback entry.
FiatPairsOnExceptionNoFallback(pairs) == pairs

\* Lines 189-196: the exchange-rate request raised.
FiatPairsOnException(pairs) == Put(pairs, "EUR/USD", FallbackPair)
GetTradingPairs ==
    /\ BeginOp("get_trading_pairs", "none")
    /\ MakeRequestWithRetry("simple/price")
    /\ opPc' = "await1"
    /\ opResult' = NoResult
    /\ http' = {}
    /\ UNCHANGED <<now, last_request_time, prev_request_time, slots, slotHeld>>

GetTradingPairsCrypto ==
    /\ op.name = "get_trading_pairs"
    /\ opPc = "await1"
    /\ pc = "ret"
    /\ IF tresult.kind = "ok"
       THEN /\ \E body \in CryptoBodies :
                /\ crypto_data' = body
                /\ trading_pairs' = CryptoPairs(body)
            /\ MakeRequestWithRetry("exchange_rates")
            /\ opPc' = "await2"
            /\ UNCHANGED opResult
       ELSE /\ Return(Raised("Failed to fetch trading pairs"))
            /\ UNCHANGED <<crypto_data, exchange_data, trading_pairs, url, attempt, resp,
                           outcomes, backoffs, tresult>>
    /\ UNCHANGED <<now, last_request_time, prev_request_time, slots, slotHeld, op,
                   http, exchange_data>>

GetTradingPairsFiat ==
    /\ op.name = "get_trading_pairs"
    /\ opPc = "await2"
    /\ pc = "ret"
    /\ IF tresult.kind = "ok"
       THEN \E body \in ExchangeBodies :
                /\ exchange_data' = body
                /\ trading_pairs' = FiatPairs(trading_pairs, body)
       ELSE /\ exchange_data' = RequestRaised
            /\ trading_pairs' = FiatPairsOnException(trading_pairs)
    /\ Return(Ok(trading_pairs'))
    /\ UNCHANGED <<now, last_request_time, prev_request_time, slots, slotHeld, op,
                   crypto_data, http, url, attempt, resp, outcomes, backoffs,
                   tresult>>

\* ---- get_pair_historical_data(pair_name, days)
LookbackDays == {1, 7, 30}
\* A series (timestamps, prices) by its number of points; rate is the price
\* of every point of a flat series, 0/0 when the prices are the upstream's.
FlatSeries(points) == [series |-> "flat", rate |-> FallbackRate, points |-> points]
UpstreamSeries(points) == [series |-> "upstream", rate |-> Ratio(0, 0), points |-> points]

\* The points of a market_chart body: as many as the upstream chose to give.
ChartPoints(days) == {0, 24 * days, 24 * days + 1}

\* What a session.get came to: the status, or a 2xx body without 'prices'.
StepOutcome(o, has_prices) == IF o = "ok" /\ ~has_prices THEN "no_prices" ELSE o

\* _get_crypto_pair_history: one self.session.get, raise_for_status, and a
\* ValueError when the body has no 'prices'; get_pair_historical_data wraps
\* whatever is raised.
GetCryptoPairHistory ==
    \E pair_name \in {"ETH/BTC", "BTC/ETH"}, days \in LookbackDays, o \in Outcomes,
       d \in ReqDurations, has_prices \in BOOLEAN :
        /\ BeginOp("get_pair_historical_data", [pair_name |-> pair_name, days |-> days])
        /\ DirectGet({}, "coins/id/market_chart", d, StepOutcome(o, has_prices))
        /\ IF o = "ok" /\ has_prices
           THEN \E points \in ChartPoints(days) : Return(Ok(UpstreamSeries(points)))
           ELSE Return(Raised("Failed to fetch historical data"))
        /\ UNCHANGED <<last_request_time, prev_request_time, slots, slotHeld, url,
                       attempt, resp, outcomes, backoffs, tresult>>

\* raise ValueError(f"Unsupported trading pair: {pair_name}"), wrapped
GetUnsupportedPairHistory ==
    \E days \in LookbackDays :
        /\ BeginOp("get_pair_historical_data",
                   [pair_name |-> UnsupportedPair, days |-> days])
        /\ Return(Raised("Failed to fetch historical data"))
        /\ http' = {}
        /\ UNCHANGED <<now, last_request_time, prev_request_time, slots, slotHeld, url,
                       attempt, resp, outcomes, backoffs, tresult>>

\* _get_fiat_pair_history, to its first self.session.get (bitcoin in eur):
\* a failure or a body without 'prices' gives 1.08 for each of the 24 * days
\* hours before now; else timestamps has a point for each price of the body
\* (the local is kept in opResult until the call returns).
GetFiatPairHistory ==
    \E days \in LookbackDays, o \in Outcomes, d \in ReqDurations,
       has_prices \in BOOLEAN :
        /\ BeginOp("get_pair_historical_data", [pair_name |-> "EUR/USD", days |-> days])
        /\ DirectGet({}, "coins/bitcoin/market_chart", d, StepOutcome(o, has_prices))
        /\ IF o = "ok" /\ has_prices
           THEN /\ opPc' = "usd"
                /\ \E points \in ChartPoints(days) :
                        opResult' = [kind |-> "none", timestamps |-> points]
                /\ UNCHANGED pc
           ELSE Return(Ok(FlatSeries(24 * days)))
        /\ UNCHANGED <<last_request_time, prev_request_time, slots, slotHeld, url,
                       attempt, resp, outcomes, backoffs, tresult>>

\* ... and its second one (bitcoin in usd): the quotients of as many points
\* as both bodies have; 1.08 for each of timestamps when this body has no
\* 'prices'; the 24 * days flat series when the request failed.
GetFiatPairHistoryUsd ==
    \E o \in Outcomes, d \in ReqDurations, has_prices \in BOOLEAN :
        /\ op.name = "get_pair_historical_data"
        /\ opPc = "usd"
        /\ DirectGet(http, "coins/bitcoin/market_chart", d, StepOutcome(o, has_prices))
        /\ IF o # "ok"
           THEN Return(Ok(FlatSeries(24 * op.arg.days)))
           ELSE IF ~has_prices
           THEN Return(Ok(FlatSeries(opResult.timestamps)))
           ELSE \E points \in ChartPoints(op.arg.days) :
                    Return(Ok(UpstreamSeries(IF points < opResult.timestamps
                                             THEN points ELSE opResult.timestamps)))
        /\ UNCHANGED <<last_request_time, prev_request_time, slots, slotHeld, op,
                       crypto_data, url, attempt, resp, outcomes, backoffs, tresult,
                       trading_pairs, exchange_data>>

\* ---- get_coin_info(coin_id): one self.session.get with timeout=10
GetCoinInfo ==
    \E coin_id \in Coins, o \in Outcomes, d \in ReqDurations :
        /\ BeginOp("get_coin_info", coin_id)
        /\ DirectGet({}, "coins/id", d, o)
        /\ Return(IF o = "ok" THEN Ok("info") ELSE Raised("Failed to fetch coin info"))
        /\ UNCHANGED <<last_request_time, prev_request_time, slots, slotHeld, url,
                       attempt, resp, outcomes, backoffs, tresult>>

\* The client as an operation finds it: freshly constructed (last_request_time
\* = 0, far in the past), or having made its last request MaxInitAge or 0
\* tenths ago.
InitClient ==
    /\ now = StartTime
    /\ last_request_time \in {0, StartTime - MaxInitAge, StartTime}
    /\ prev_request_time = last_request_time
    /\ slots = 0
    /\ slotHeld = FALSE
    /\ op = NoOp
    /\ opPc = "idle"
    /\ opResult = NoResult
    /\ crypto_data = EmptyDict
    /\ exchange_data = NoBody
    /\ http = {}
    /\ pc = "none"
    /\ url = "none"
    /\ attempt = 0
    /\ resp = "none"
    /\ outcomes = <<>>
    /\ backoffs = <<>>
    /\ tresult = NoResult
    /\ trading_pairs = EmptyDict

(***************************************************************************)
(* The rate limiter under concurrent callers. get_api_client is a          *)
(* st.cache_resource: every session's script thread gets the same          *)
(* CoinGeckoAPI, and _rate_limit_delay takes no lock, so its lines         *)
(* interleave.                                                             *)
(***************************************************************************)
NumThreads == 2         \* script threads sharing the client
MaxCalls == 1           \* calls of _rate_limit_delay per thread
MaxClock == 34          \* the clock stops here

Threads == 1..NumThreads

\* A thread enters _rate_limit_delay.
Enter(t) ==
    /\ tpc[t] = "idle"
    /\ calls[t] < MaxCalls
    /\ tpc' = [tpc EXCEPT ![t] = "l28"]
    /\ UNCHANGED <<now, last_request_time, current_time, time_since_last, wake_at,
                   calls, grants>>

\* line 28: current_time = time.time()
ReadClock(t) ==
    /\ tpc[t] = "l28"
    /\ current_time' = [current_time EXCEPT ![t] = now]
    /\ tpc' = [tpc EXCEPT ![t] = "l29"]
    /\ UNCHANGED <<now, last_request_time, time_since_last, wake_at, calls, grants>>

\* line 29: time_since_last = current_time - self.last_request_time
ReadLast(t) ==
    /\ tpc[t] = "l29"
    /\ time_since_last' =
            [time_since_last EXCEPT ![t] = current_time[t] - last_request_time]
    /\ tpc' = [tpc EXCEPT ![t] = "l30"]
    /\ UNCHANGED <<now, last_request_time, current_time, wake_at, calls, grants>>

\* lines 30-31: if time_since_last < self.min_request_interval: time.sleep(...)
SleepIfEarly(t) ==
    /\ tpc[t] = "l30"
    /\ IF RateLimitSleep(time_since_last[t]) > 0
       THEN /\ wake_at' = [wake_at EXCEPT
                              ![t] = now + RateLimitSleep(time_since_last[t])]
            /\ tpc' = [tpc EXCEPT ![t] = "l31"]
       ELSE /\ tpc' = [tpc EXCEPT ![t] = "l32"]
            /\ UNCHANGED wake_at
    /\ UNCHANGED <<now, last_request_time, current_time, time_since_last, calls,
                   grants>>

\* time.sleep returns once the time slept has passed
WakeUp(t) ==
    /\ tpc[t] = "l31"
    /\ now >= wake_at[t]
    /\ tpc' = [tpc EXCEPT ![t] = "l32"]
    /\ UNCHANGED <<now, last_request_time, current_time, time_since_last, wake_at,
                   calls, grants>>

\* line 32: self.last_request_time = time.time(); the caller goes on to its
\* outbound call
RecordTime(t) ==
    /\ tpc[t] = "l32"
    /\ last_request_time' = now
    /\ grants' = Append(grants, now)
    /\ calls' = [calls EXCEPT ![t] = @ + 1]
    /\ tpc' = [tpc EXCEPT ![t] = "idle"]
    /\ UNCHANGED <<now, current_time, time_since_last, wake_at>>

\* Time passes.
Tick ==
    /\ now < MaxClock
    /\ now' = now + 1
    /\ UNCHANGED <<last_request_time, tpc, current_time, time_since_last, wake_at,
                   calls, grants>>

InitThreads ==
    /\ tpc = [t \in Threads |-> "idle"]
    /\ current_time = [t \in Threads |-> 0]
    /\ time_since_last = [t \in Threads |-> 0]
    /\ wake_at = [t \in Threads |-> 0]
    /\ calls = [t \in Threads |-> 0]
    /\ grants = <<>>

(***************************************************************************)
(* The cache store (DatabaseManager) and the loader (load_current_prices). *)
(* The client is seen here as the outcomes of its get_current_prices.      *)
(***************************************************************************)
MaxLoads == 2           \* calls of load_current_prices per behaviour
MaxTicks == 2           \* the clock advances at most this many times
LoaderTick == 600       \* by this much each time (one minute)

FreshnessWindow == 1200         \* timedelta(minutes=2)
PricesTtl == 600                \* @st.cache_data(ttl=60)

PriceValues == {1, 2}
TzOffsets == {0 - Tenths(3600), 0, Tenths(3600)}

\* datetime.timestamp() of a naive datetime takes it for local time;
\* datetime.fromtimestamp() gives local time, naive; datetime.now() is local,
\* datetime.utcnow() is UTC. A naive datetime is the number its fields spell.
Timestamp(naive) == naive - tz
FromTimestamp(epoch) == epoch + tz
DatetimeNow == now + tz
DatetimeUtcNow == now

\* get_latest_coin_prices: for each id, the first row of its rows ordered by
\* timestamp descending; ids without rows are left out. Which of several rows
\* with the greatest timestamp comes first is up to the database.
RowsOf(coin_id) == {i \in 1..Len(coin_prices) : coin_prices[i].coin_id = coin_id}
LatestOfAscending(coin_id) ==
    {i \in RowsOf(coin_id) :
        \A j \in RowsOf(coin_id) : coin_prices[i].timestamp <= coin_prices[j].timestamp}
LatestOf(coin_id) ==
    {i \in RowsOf(coin_id) :
        \A j \in RowsOf(coin_id) : coin_prices[j].timestamp <= coin_prices[i].timestamp}
Stored(coin_ids) == {c \in coin_ids : RowsOf(c) # {}}
LatestChoices(coin_ids) ==
    {pick \in [Stored(coin_ids) -> 1..Len(coin_prices)] :
        \A c \in Stored(coin_ids) : pick[c] \in LatestOf(c)}
RowsRead(pick) == [c \in DOMAIN pick |-> coin_prices[pick[c]]]
GetLatestCoinPrices(pick) ==
    [c \in DOMAIN pick |->
        [usd |-> coin_prices[pick[c]].price_usd,
         last_updated_at |-> Timestamp(coin_prices[pick[c]].timestamp)]]

\* store_coin_prices: one row per entry, stamped datetime.utcnow by default,
\* committed together.
SetToSeq(S) ==
    IF S = {} THEN {<<>>}
    ELSE {q \in [1..Cardinality(S) -> S] : \A i, j \in DOMAIN q : i # j => q[i] # q[j]}
StoreCoinPrices(table, coin_data, at) ==
    LET order == CHOOSE q \in SetToSeq(DOMAIN coin_data) : TRUE
    IN  table \o [i \in 1..Len(order) |->
                    [coin_id |-> order[i], price_usd |-> coin_data[order[i]].usd,
                     timestamp |-> at]]

\* lines 75-79: is some row of cached_prices recent?
IsRecent(data) ==
    LET last_update == FromTimestamp(data.last_updated_at)
    IN  DatetimeNow - last_update < FreshnessWindow
SomeRecent(cached_prices) == \E c \in DOMAIN cached_prices : IsRecent(cached_prices[c])

\* What api.get_current_prices(coin_ids) can come to: raise, or a dict with an
\* entry for each coin the upstream listed. No ids: {} without a request.
LiveQuotes(coin_ids) ==
    {[c \in listed |-> [usd |-> usd, last_updated_at |-> now]] :
        listed \in SUBSET coin_ids, usd \in PriceValues}

NoMemo == [at |-> -1, value |-> EmptyDict]
MemoHit(coin_ids) == memo[coin_ids].at >= 0 /\ now - memo[coin_ids].at < PricesTtl

NoLoad == [ids |-> {}, at |-> 0, served |-> "none", cache_on |-> FALSE,
           db_read |-> "none", rows |-> EmptyDict, cached |-> EmptyDict,
           client |-> "none", client_ids |-> {}, requests |-> 0,
           db_write |-> "none", outcome |-> "none", fetched |-> EmptyDict,
           result |-> EmptyDict]

\* Lines 85-91 and 119-125: what the loader returns after the write-back it
\* attempted or not: the inner except turns a failure into a warning.
ReturnAfterWriteBackRaising(fetched, db_write) ==
    IF db_write = "raised" THEN EmptyDict ELSE fetched
ReturnAfterWriteBack(fetched, db_write) == fetched

\* A call answered by st.cache_data: the body does not run.
LoadCurrentPricesMemoizedFor(coin_ids) ==
    /\ loads < MaxLoads
    /\ MemoHit(coin_ids)
    /\ loads' = loads + 1
    /\ load' = [NoLoad EXCEPT !.ids = coin_ids, !.at = now, !.outcome = "returned",
                              !.served = "memo",
                              !.result = memo[coin_ids].value]
    /\ UNCHANGED <<now, tz, db, use_database, coin_prices, memo>>

LoadCurrentPricesMemoized ==
    \E coin_ids \in SUBSET Coins : LoadCurrentPricesMemoizedFor(coin_ids)

\* Lines 71-79, the cache read raised: the outer except returns {}.
LoadCurrentPricesReadFailsFor(coin_ids) ==
    /\ loads < MaxLoads
    /\ ~MemoHit(coin_ids)
    /\ use_database /\ db
    /\ loads' = loads + 1
    /\ load' = [NoLoad EXCEPT !.ids = coin_ids, !.at = now, !.outcome = "returned",
                              !.served = "error",
                              !.cache_on = TRUE, !.db_read = "raised"]
    /\ memo' = [memo EXCEPT ![coin_ids] = [at |-> now, value |-> EmptyDict]]
    /\ UNCHANGED <<now, tz, db, use_database, coin_prices>>

LoadCurrentPricesReadFails ==
    \E coin_ids \in SUBSET Coins : LoadCurrentPricesReadFailsFor(coin_ids)

\* Lines 71-79, some row of cached_prices is recent: return cached_prices.
LoadCurrentPricesFromCacheFor(coin_ids) ==
    /\ loads < MaxLoads
    /\ ~MemoHit(coin_ids)
    /\ use_database /\ db
    /\ \E pick \in LatestChoices(coin_ids) :
        LET cached_prices == GetLatestCoinPrices(pick)
        IN  /\ DOMAIN cached_prices # {}
            /\ SomeRecent(cached_prices)
            /\ load' = [NoLoad EXCEPT !.ids = coin_ids, !.at = now, !.outcome = "returned",
                                      !.served = "cache", !.cache_on = TRUE,
                                      !.db_read = "ok",
                                      !.rows = RowsRead(pick),
                                      !.cached = cached_prices,
                                      !.result = cached_prices]
            /\ memo' = [memo EXCEPT ![coin_ids] =
                            [at |-> now, value |-> cached_prices]]
    /\ loads' = loads + 1
    /\ UNCHANGED <<now, tz, db, use_database, coin_prices>>

LoadCurrentPricesFromCache ==
    \E coin_ids \in SUBSET Coins : LoadCurrentPricesFromCacheFor(coin_ids)

\* Lines 81-94: no cache, nothing cached or nothing recent: fetch, write
\* back, return; a failed fetch returns {}, a failed write-back is a warning.
\* The client makes upstream requests unless it is given no ids.
LoadCurrentPricesLiveFor(coin_ids) ==
    /\ loads < MaxLoads
    /\ ~MemoHit(coin_ids)
    /\ \E pick \in LatestChoices(coin_ids) :
        LET cache_on == use_database /\ db
            cached_prices == IF cache_on THEN GetLatestCoinPrices(pick)
                             ELSE EmptyDict
            seen == [NoLoad EXCEPT !.ids = coin_ids, !.at = now, !.outcome = "returned",
                                   !.cache_on = cache_on,
                                   !.db_read = IF cache_on THEN "ok" ELSE "none",
                                   !.rows = IF cache_on THEN RowsRead(pick)
                                            ELSE EmptyDict,
                                   !.cached = cached_prices,
                                   !.client_ids = coin_ids]
        IN  /\ cache_on => ~SomeRecent(cached_prices)
            /\ LET requests == IF coin_ids = {} THEN 0 ELSE 1 IN
                 \/ /\ coin_ids # {}
                    /\ load' = [seen EXCEPT !.served = "error",
                                            !.client = "raised",
                                            !.requests = requests]
                    /\ memo' = [memo EXCEPT ![coin_ids] =
                                    [at |-> now, value |-> EmptyDict]]
                    /\ UNCHANGED coin_prices
                 \/ \E prices \in LiveQuotes(coin_ids), written \in BOOLEAN :
                    LET db_write == IF cache_on /\ DOMAIN prices # {}
                                    THEN (IF written THEN "ok" ELSE "raised")
                                    ELSE "none"
                        returned == ReturnAfterWriteBack(prices, db_write)
                    IN  /\ written => (cache_on /\ DOMAIN prices # {})
                        /\ coin_prices' =
                                IF written
                                THEN StoreCoinPrices(coin_prices, prices, DatetimeUtcNow)
                                ELSE coin_prices
                        /\ load' = [seen EXCEPT
                                        !.served = "live", !.client = "ok",
                                        !.requests = requests,
                                        !.fetched = prices,
                                        !.db_write = db_write,
                                        !.result = returned]
                        /\ memo' = [memo EXCEPT ![coin_ids] =
                                        [at |-> now, value |-> returned]]
    /\ loads' = loads + 1
    /\ UNCHANGED <<now, tz, db, use_database>>

LoadCurrentPricesLive ==
    \E coin_ids \in SUBSET Coins : LoadCurrentPricesLiveFor(coin_ids)

\* main, lines 260-266: the sidebar's "Use Database Cache" checkbox
Sidebar ==
    /\ IF db THEN use_database' \in BOOLEAN ELSE use_database' = FALSE
    /\ use_database' # use_database
    /\ UNCHANGED <<now, tz, db, coin_prices, memo, loads, load>>

\* main, lines 319-321: "Refresh Now" clears st.cache_data
RefreshNow ==
    /\ \E k \in DOMAIN memo : memo[k] # NoMemo
    /\ memo' = [k \in DOMAIN memo |-> NoMemo]
    /\ UNCHANGED <<now, tz, db, use_database, coin_prices, loads, load>>

\* A minute passes.
Minute ==
    /\ now < StartTime + MaxTicks * LoaderTick
    /\ now' = now + LoaderTick
    /\ UNCHANGED <<tz, db, use_database, coin_prices, memo, loads, load>>

\* The table outlives the process: it starts empty, or with a bitcoin row an
\* earlier run stored a minute before.
InitTables ==
    {<<>>,
     <<[coin_id |-> "bitcoin", price_usd |-> 1, timestamp |-> StartTime - LoaderTick]>>}

InitStore ==
    /\ tz \in TzOffsets
    /\ db \in BOOLEAN
    /\ use_database = TRUE
    /\ coin_prices \in InitTables
    /\ memo = [k \in SUBSET Coins |-> NoMemo]
    /\ loads = 0
    /\ load = NoLoad

(***************************************************************************)
(* load_trading_pairs, and one session's runs of the script: the top-level *)
(* statements of app.py, then main.  The client is seen as the outcomes of *)
(* its operations, the store's calls as succeeding or raising.             *)
(***************************************************************************)
MaxRuns == 2            \* runs of the script per behaviour

PairsTtl == 600                 \* @st.cache_data(ttl=60)

\* The condition of lines 71, 85, 110, 119 and 296.
CacheEnabledIgnoringFlag == db
CacheEnabled == use_database /\ db

\* get_latest_trading_pairs: query.all() with no ordering, each row
\* overwriting the entry of its pair_name: for every name with rows, the row
\* the database happened to give last.
PairRowsOf(pair_name) ==
    {i \in 1..Len(trading_pairs_table) : trading_pairs_table[i].pair_name = pair_name}
StoredPairs == {n \in PairNames : PairRowsOf(n) # {}}
PairChoices ==
    {pick \in [StoredPairs -> 1..Len(trading_pairs_table)] :
        \A n \in StoredPairs : pick[n] \in PairRowsOf(n)}
GetLatestTradingPairs(pick) ==
    [n \in DOMAIN pick |-> [price |-> trading_pairs_table[pick[n]].price]]

\* store_trading_pairs: one row per entry, committed together.
StoreTradingPairs(table, pair_data, at) ==
    LET order == CHOOSE q \in SetToSeq(DOMAIN pair_data) : TRUE
    IN  table \o [i \in 1..Len(order) |->
                    [pair_name |-> order[i], price |-> pair_data[order[i]].price,
                     timestamp |-> at]]

\* What api.get_trading_pairs() can come to: raise, or a dict with all the
\* pairs, with EUR/USD alone, or with none.
LivePairs ==
    {[n \in names |-> [price |-> price]] :
        names \in {{}, {"EUR/USD"}, PairNames}, price \in {1}}

PairsMemoHit == pairs_memo.at >= 0 /\ now - pairs_memo.at < PairsTtl

NoPairsLoad == [at |-> 0, served |-> "none", cache_on |-> FALSE, db_read |-> "none",
                rows |-> EmptyDict,
                cached |-> EmptyDict, client |-> "none", db_write |-> "none",
                outcome |-> "none", fetched |-> EmptyDict, result |-> EmptyDict]

\* A call answered by st.cache_data: the body does not run.
LoadTradingPairsMemoized ==
    /\ PairsMemoHit
    /\ pairs_load' = [NoPairsLoad EXCEPT !.at = now, !.outcome = "returned",
                                         !.served = "memo",
                                         !.result = pairs_memo.value]
    /\ UNCHANGED <<now, tz, db, use_database, trading_pairs_table, pairs_memo>>

\* Lines 110-113, the cache read raised: the outer except returns {}.
LoadTradingPairsReadFails ==
    /\ ~PairsMemoHit
    /\ CacheEnabled
    /\ pairs_load' = [NoPairsLoad EXCEPT !.at = now, !.outcome = "returned",
                                         !.served = "error", !.cache_on = TRUE,
                                         !.db_read = "raised"]
    /\ pairs_memo' = [at |-> now, value |-> EmptyDict]
    /\ UNCHANGED <<now, tz, db, use_database, trading_pairs_table>>

\* Lines 110-113, the table has rows: return cached_pairs.
LoadTradingPairsFromCache ==
    /\ ~PairsMemoHit
    /\ CacheEnabled
    /\ \E pick \in PairChoices :
        LET cached_pairs == GetLatestTradingPairs(pick)
        IN  /\ DOMAIN cached_pairs # {}
            /\ pairs_load' = [NoPairsLoad EXCEPT !.at = now, !.outcome = "returned",
                                                 !.served = "cache", !.cache_on = TRUE,
                                                 !.db_read = "ok",
                                                 !.rows = [n \in DOMAIN pick |->
                                                    trading_pairs_table[pick[n]]],
                                                 !.cached = cached_pairs,
                                                 !.result = cached_pairs]
            /\ pairs_memo' = [at |-> now, value |-> cached_pairs]
    /\ UNCHANGED <<now, tz, db, use_database, trading_pairs_table>>

\* Lines 115-128: no cache or no rows: fetch, write back, return; a failed
\* fetch returns {}, a failed write-back is a warning.
LoadTradingPairsLive ==
    /\ ~PairsMemoHit
    /\ CacheEnabled => StoredPairs = {}
    /\ LET seen == [NoPairsLoad EXCEPT !.at = now, !.outcome = "returned",
                                       !.cache_on = CacheEnabled,
                                       !.db_read = IF CacheEnabled THEN "ok" ELSE "none"]
       IN  \/ /\ pairs_load' = [seen EXCEPT !.served = "error", !.client = "raised"]
              /\ pairs_memo' = [at |-> now, value |-> EmptyDict]
              /\ UNCHANGED trading_pairs_table
           \/ \E pairs \in LivePairs, written \in BOOLEAN :
              LET db_write == IF CacheEnabled /\ DOMAIN pairs # {}
                              THEN (IF written THEN "ok" ELSE "raised")
                              ELSE "none"
                  returned == ReturnAfterWriteBack(pairs, db_write)
              IN  /\ written => (CacheEnabled /\ DOMAIN pairs # {})
                  /\ trading_pairs_table' =
                        IF written
                        THEN StoreTradingPairs(trading_pairs_table, pairs,
                                               DatetimeUtcNow)
                        ELSE trading_pairs_table
                  /\ pairs_load' = [seen EXCEPT
                                        !.served = "live", !.client = "ok",
                                        !.fetched = pairs,
                                        !.db_write = db_write,
                                        !.result = returned]
                  /\ pairs_memo' = [at |-> now, value |-> returned]
    /\ UNCHANGED <<now, tz, db, use_database>>

\* ---- the script
SessionId == "session"
OtherSessionId == "other session"
NoPreferences == [selected_coins |-> {}, saved |-> FALSE]

\* Lines 23-36 and what a run starts from; st.session_state.selected_coins
\* outlives the run.  loaded, failed and rendered hold data kinds: "coins"
\* (the asset listing), "prices" (the spot quotes), "pairs" (the pair rates)
\* and "charts" (the historical series).
NoPage == [pc |-> "idle", run |-> 0, selected_coins |-> Coins,
           supported_coins |-> {}, loaded |-> {}, failed |-> {}, rendered |-> {},
           store_ops |-> {}]

\* Lines 53-54: the cached resources.  get_database_manager constructs the
\* DatabaseManager on the first run only: st.cache_resource keeps what it
\* returned, None included.  The histories of the loaders' calls are those
\* of the run.
RunScript ==
    /\ page.pc = "idle"
    /\ page.run < MaxRuns
    /\ db_inits' = IF db_inits = 0 THEN 1 ELSE db_inits
    /\ page' = [page EXCEPT !.pc = "sidebar", !.run = @ + 1, !.supported_coins = {},
                            !.loaded = {}, !.failed = {}, !.rendered = {}]
    /\ load' = NoLoad
    /\ pairs_load' = NoPairsLoad
    /\ UNCHANGED <<now, tz, db, use_database, coin_prices, memo, loads,
                   trading_pairs_table, user_preferences, pairs_memo>>

\* Lines 260-266: the checkbox when there is a database, False when not.
SidebarUseDatabaseUnforced(checkbox) == checkbox
SidebarUseDatabase(checkbox) == IF db THEN checkbox ELSE FALSE

SidebarDatabase ==
    /\ page.pc = "sidebar"
    /\ \E checkbox \in BOOLEAN : use_database' = SidebarUseDatabase(checkbox)
    /\ page' = [page EXCEPT !.pc = "coins"]
    /\ UNCHANGED <<now, tz, db, coin_prices, memo, loads, load, trading_pairs_table,
                   user_preferences, pairs_memo, pairs_load, db_inits>>

\* Lines 268-274: load_supported_coins returns the client's list, or [] when
\* the client raised; main returns when the list is empty.  Its st.cache_data
\* entry repeats an outcome the call can have anyway.
LoadSupportedCoins ==
    /\ page.pc = "coins"
    /\ \E client \in {"ok", "raised"}, listed \in SUBSET Coins :
        LET supported_coins == IF client = "ok" THEN listed ELSE {}
        IN  /\ client = "raised" => listed = {}
            /\ page' = [page EXCEPT
                    !.pc = IF supported_coins = {} THEN "done" ELSE "select",
                    !.supported_coins = supported_coins,
                    !.loaded = @ \cup {"coins"},
                    !.failed = IF supported_coins = {} THEN @ \cup {"coins"} ELSE @,
                    !.rendered = IF supported_coins = {} THEN @ ELSE @ \cup {"coins"}]
    /\ UNCHANGED <<now, tz, db, use_database, coin_prices, memo, loads, load,
                   trading_pairs_table, user_preferences, pairs_memo, pairs_load,
                   db_inits>>

\* Lines 276-293: the multiselect over the supported coins.
SelectCoins ==
    /\ page.pc = "select"
    /\ \E selected \in SUBSET page.supported_coins :
        page' = [page EXCEPT !.pc = "prefs", !.selected_coins = selected]
    /\ UNCHANGED <<now, tz, db, use_database, coin_prices, memo, loads, load,
                   trading_pairs_table, user_preferences, pairs_memo, pairs_load,
                   db_inits>>

\* Lines 295-305: save_user_preferences, an upsert of the session's row; when
\* it raises, a warning.
SavePreferences ==
    /\ page.pc = "prefs"
    /\ IF CacheEnabled
       THEN \E saved \in BOOLEAN :
            /\ user_preferences' =
                    IF saved
                    THEN [user_preferences EXCEPT ![SessionId] =
                            [selected_coins |-> page.selected_coins, saved |-> TRUE]]
                    ELSE user_preferences
            /\ page' = [page EXCEPT !.pc = "refresh",
                                    !.store_ops = @ \cup {"save_user_preferences"}]
       ELSE /\ page' = [page EXCEPT !.pc = "refresh"]
            /\ UNCHANGED user_preferences
    /\ UNCHANGED <<now, tz, db, use_database, coin_prices, memo, loads, load,
                   trading_pairs_table, pairs_memo, pairs_load, db_inits>>

\* Lines 319-321: "Refresh Now" clears every st.cache_data entry and reruns.
ClickRefreshNow ==
    /\ page.pc = "refresh"
    /\ memo' = [k \in DOMAIN memo |-> NoMemo]
    /\ pairs_memo' = NoMemo
    /\ page' = [page EXCEPT !.pc = "idle"]
    /\ UNCHANGED <<now, tz, db, use_database, coin_prices, loads, load,
                   trading_pairs_table, user_preferences, pairs_load, db_inits>>

\* Lines 328-330: without a selection main returns.
MainContent ==
    /\ page.pc = "refresh"
    /\ page' = [page EXCEPT !.pc = IF page.selected_coins = {} THEN "done" ELSE "prices"]
    /\ UNCHANGED <<now, tz, db, use_database, coin_prices, memo, loads, load,
                   trading_pairs_table, user_preferences, pairs_memo, pairs_load,
                   db_inits>>

\* The Cache Store operations a loader call attempted.
StoreOpsOf(call, read, write) ==
    (IF call.db_read # "none" THEN {read} ELSE {})
    \cup (IF call.db_write # "none" THEN {write} ELSE {})

\* Lines 332-358: load_current_prices(selected_coins); main returns when the
\* result is empty, else the price cards are drawn.
AfterLoadCurrentPrices(current_prices, call) ==
    /\ page' = [page EXCEPT
            !.pc = IF DOMAIN current_prices = {} THEN "done" ELSE "pairs",
            !.loaded = @ \cup {"prices"},
            !.failed = IF DOMAIN current_prices = {} THEN @ \cup {"prices"} ELSE @,
            !.rendered = IF DOMAIN current_prices = {} THEN @ ELSE @ \cup {"prices"},
            !.store_ops = @ \cup StoreOpsOf(call, "get_latest_coin_prices",
                                            "store_coin_prices")]
    /\ UNCHANGED <<trading_pairs_table, user_preferences, pairs_memo, pairs_load,
                   db_inits>>

PricesMemoized ==
    /\ page.pc = "prices"
    /\ LoadCurrentPricesMemoizedFor(page.selected_coins)
    /\ AfterLoadCurrentPrices(load'.result, load')

PricesReadFails ==
    /\ page.pc = "prices"
    /\ LoadCurrentPricesReadFailsFor(page.selected_coins)
    /\ AfterLoadCurrentPrices(load'.result, load')

PricesFromCache ==
    /\ page.pc = "prices"
    /\ LoadCurrentPricesFromCacheFor(page.selected_coins)
    /\ AfterLoadCurrentPrices(load'.result, load')

PricesLive ==
    /\ page.pc = "prices"
    /\ LoadCurrentPricesLiveFor(page.selected_coins)
    /\ AfterLoadCurrentPrices(load'.result, load')

\* Lines 360-377: load_trading_pairs(); the pair cards are drawn when the
\* result is not empty.
AfterLoadTradingPairs(pairs, call) ==
    /\ page' = [page EXCEPT
            !.pc = "charts",
            !.loaded = @ \cup {"pairs"},
            !.failed = IF DOMAIN pairs = {} THEN @ \cup {"pairs"} ELSE @,
            !.rendered = IF DOMAIN pairs = {} THEN @ ELSE @ \cup {"pairs"},
            !.store_ops = @ \cup StoreOpsOf(call, "get_latest_trading_pairs",
                                            "store_trading_pairs")]
    /\ UNCHANGED <<coin_prices, memo, loads, load, user_preferences, db_inits>>

PairsMemoized ==
    /\ page.pc = "pairs"
    /\ LoadTradingPairsMemoized
    /\ AfterLoadTradingPairs(pairs_load'.result, pairs_load')

PairsReadFails ==
    /\ page.pc = "pairs"
    /\ LoadTradingPairsReadFails
    /\ AfterLoadTradingPairs(pairs_load'.result, pairs_load')

PairsFromCache ==
    /\ page.pc = "pairs"
    /\ LoadTradingPairsFromCache
    /\ AfterLoadTradingPairs(pairs_load'.result, pairs_load')

PairsLive ==
    /\ page.pc = "pairs"
    /\ LoadTradingPairsLive
    /\ AfterLoadTradingPairs(pairs_load'.result, pairs_load')

\* Lines 381-396 and display_coin_chart: for every selected coin that has a
\* quote and a listing, load_historical_data, which returns the client's
\* series or ([], []) when the client raised; a chart is drawn for a series.
Charts ==
    /\ page.pc = "charts"
    /\ LET wanted == page.selected_coins \cap DOMAIN load.result
                        \cap page.supported_coins
       IN  \E drawn \in SUBSET wanted :
            page' = [page EXCEPT
                !.pc = "done",
                !.loaded = IF wanted = {} THEN @ ELSE @ \cup {"charts"},
                !.failed = IF drawn # wanted THEN @ \cup {"charts"} ELSE @,
                !.rendered = IF drawn = {} THEN @ ELSE @ \cup {"charts"}]
    /\ UNCHANGED <<now, tz, db, use_database, coin_prices, memo, loads, load,
                   trading_pairs_table, user_preferences, pairs_memo, pairs_load,
                   db_inits>>

\* Lines 401-404, or the next interaction: the script runs again, a minute
\* later or at once.
Rerun ==
    /\ page.pc = "done"
    /\ page' = [page EXCEPT !.pc = "idle"]
    /\ \/ now < StartTime + MaxTicks * LoaderTick /\ now' = now + LoaderTick
       \/ UNCHANGED now
    /\ UNCHANGED <<tz, db, use_database, coin_prices, memo, loads, load,
                   trading_pairs_table, user_preferences, pairs_memo, pairs_load,
                   db_inits>>

\* The process starts: nothing memoized, no DatabaseManager constructed yet;
\* db tells whether constructing it will succeed.  The tables are the
\* database's, empty here.
\* The table trading_pairs as a process can find it: empty, or with rows
\* stored a day before.
InitPairsTables ==
    {<<>>,
     <<[pair_name |-> "EUR/USD", price |-> 2, timestamp |-> StartTime - Tenths(86400)]>>}

InitPage ==
    /\ trading_pairs_table = <<>>
    /\ user_preferences = [id \in {SessionId} |-> NoPreferences]
    /\ pairs_memo = NoMemo
    /\ pairs_load = NoPairsLoad
    /\ page = NoPage
    /\ db_inits = 0

(***************************************************************************)
(* The mutating calls of DatabaseManager, statement by statement           *)
(* (SpecStore).  Here a table is the sequence of its rows, each            *)
(* [key, value, timestamp], with timestamps counted in days; Today is the  *)
(* day of datetime.utcnow() and utc_day its day of the month.              *)
(***************************************************************************)
MaxStoreCalls == 2      \* calls per behaviour
Today == 100            \* the day number of datetime.utcnow()

DefaultCleanupDays == 30        \* cleanup_old_data(self, days: int = 30)
HistoryKeepDays == 30           \* .replace(day=datetime.utcnow().day - 30)

PrunedKinds == {"coin_prices", "trading_pairs", "historical_data",
                "pair_historical_data"}
TableKinds == PrunedKinds \cup {"user_preferences"}

\* The keys of a kind's rows: coin ids, pair names, session ids.
KeysOf(kind) ==
    IF kind \in {"coin_prices", "historical_data"} THEN <<"bitcoin", "ethereum">>
    ELSE IF kind \in {"trading_pairs", "pair_historical_data"}
    THEN <<"ETH/BTC", "EUR/USD">>
    ELSE <<SessionId, OtherSessionId>>

\* datetime.utcnow().replace(day=datetime.utcnow().day - days): the same
\* month with another day of the month; ValueError when that day is below 1.
CutoffDate(days) ==
    IF utc_day - days >= 1
    THEN [ok |-> TRUE, date |-> Today - days]
    ELSE [ok |-> FALSE, date |-> 0]

\* One statement of a session on the tables it sees.
Execute(statement, work) ==
    LET kind == statement.kind
        Kept(r) == ~(/\ r.timestamp < statement.cutoff
                     /\ statement.key \in {"any", r.key})
        Other(r) == r.key # statement.row.key
    IN  IF statement.do = "delete"
        THEN [work EXCEPT ![kind] = SelectSeq(@, Kept)]
        ELSE IF statement.do = "add"
        THEN [work EXCEPT ![kind] = Append(@, statement.row)]
        ELSE [work EXCEPT ![kind] =
                [i \in DOMAIN @ |-> IF @[i].key = statement.row.key
                                    THEN statement.row ELSE @[i]]]

RECURSIVE ExecuteAll(_, _)
ExecuteAll(statements, work) ==
    IF statements = <<>> THEN work
    ELSE ExecuteAll(Tail(statements), Execute(Head(statements), work))

Delete(kind, key, cutoff) ==
    [do |-> "delete", kind |-> kind, key |-> key, cutoff |-> cutoff,
     row |-> [key |-> key, value |-> 0, timestamp |-> 0]]
Add(kind, key, value, timestamp) ==
    [do |-> "add", kind |-> kind, key |-> key, cutoff |-> 0,
     row |-> [key |-> key, value |-> value, timestamp |-> timestamp]]
UpdateAddingRow(kind, key, value, timestamp) == Add(kind, key, value, timestamp)
Update(kind, key, value, timestamp) ==
    [do |-> "update", kind |-> kind, key |-> key, cutoff |-> 0,
     row |-> [key |-> key, value |-> value, timestamp |-> timestamp]]

NoSession == [open |-> FALSE, todo |-> <<>>, work |-> <<>>]
NoStoreCall == [name |-> "none", arg |-> 0, outcome |-> "none", cause |-> "none",
                statements |-> <<>>, executed |-> 0, before |-> <<>>,
                key |-> "none", result |-> EmptyDict]

\* session = self.get_session(), and the statements the call will issue.
BeginCall(name, arg, statements) ==
    /\ ~session.open
    /\ store_calls < MaxStoreCalls
    /\ store_calls' = store_calls + 1
    /\ session' = [open |-> TRUE, todo |-> statements, work |-> tables]
    /\ store_call' = [NoStoreCall EXCEPT !.name = name, !.arg = arg,
                                         !.statements = statements,
                                         !.before = tables]
    /\ UNCHANGED <<tables, utc_day>>

\* The except clause: session.rollback(), raise e.
RollbackKeepingWork(before, work) == work
Rollback(before, work) == before

\* The call computes its cutoff first; the ValueError is raised inside the
\* try, before any statement.
RaiseValueError(name, arg) ==
    /\ ~session.open
    /\ store_calls < MaxStoreCalls
    /\ store_calls' = store_calls + 1
    /\ tables' = Rollback(tables, tables)
    /\ store_call' = [NoStoreCall EXCEPT !.name = name, !.arg = arg,
                                         !.outcome = "raised",
                                         !.cause = "ValueError",
                                         !.before = tables]
    /\ UNCHANGED <<session, utc_day>>

Batches(kind) ==
    {<<>>, <<KeysOf(kind)[1]>>, <<KeysOf(kind)[1], KeysOf(kind)[2]>>}

\* store_coin_prices, store_trading_pairs: an add for every entry.
BeginStoreBatch(name, kind) ==
    \E batch \in Batches(kind) :
        BeginCall(name, Len(batch),
                  [i \in 1..Len(batch) |-> Add(kind, batch[i], 1, Today)])

BeginStoreCoinPrices == BeginStoreBatch("store_coin_prices", "coin_prices")
BeginStoreTradingPairs == BeginStoreBatch("store_trading_pairs", "trading_pairs")

\* store_historical_data, store_pair_historical_data: the delete of the
\* key's rows older than the cutoff, then an add for every point.
SeriesTimestamps == {<<>>, <<Today>>, <<Today - 1, Today>>}

BeginStoreSeries(name, kind) ==
    \E key \in {KeysOf(kind)[1]}, timestamps \in SeriesTimestamps :
        LET cutoff_date == CutoffDate(HistoryKeepDays)
        IN  IF cutoff_date.ok
            THEN BeginCall(name, Len(timestamps),
                           <<Delete(kind, key, cutoff_date.date)>>
                           \o [i \in 1..Len(timestamps) |->
                                    Add(kind, key, 1, timestamps[i])])
            ELSE RaiseValueError(name, Len(timestamps))

BeginStoreHistoricalData == BeginStoreSeries("store_historical_data", "historical_data")
BeginStorePairHistoricalData ==
    BeginStoreSeries("store_pair_historical_data", "pair_historical_data")

\* save_user_preferences: the session's row is updated in place when there
\* is one, added when not.
BeginSaveUserPreferences ==
    \E session_id \in {SessionId, OtherSessionId}, value \in {1, 2} :
        LET existing == \E i \in DOMAIN tables["user_preferences"] :
                            tables["user_preferences"][i].key = session_id
        IN  BeginCall("save_user_preferences", value,
                      IF existing
                      THEN <<Update("user_preferences", session_id, value, Today)>>
                      ELSE <<Add("user_preferences", session_id, value, Today)>>)

\* cleanup_old_data(days): four deletes, one per pruned kind.
BeginCleanupOldData ==
    \E days \in {DefaultCleanupDays} :
        LET cutoff_date == CutoffDate(days)
        IN  IF cutoff_date.ok
            THEN BeginCall("cleanup_old_data", days,
                           <<Delete("coin_prices", "any", cutoff_date.date),
                             Delete("trading_pairs", "any", cutoff_date.date),
                             Delete("historical_data", "any", cutoff_date.date),
                             Delete("pair_historical_data", "any", cutoff_date.date)>>)
            ELSE RaiseValueError("cleanup_old_data", days)

\* The reading calls: a session of their own, nothing written.
ReadCall(name, key, result) ==
    /\ ~session.open
    /\ store_calls < MaxStoreCalls
    /\ store_calls' = store_calls + 1
    /\ store_call' = [NoStoreCall EXCEPT !.name = name, !.key = key,
                                         !.outcome = "ok", !.before = tables,
                                         !.result = result]
    /\ UNCHANGED <<tables, session, utc_day>>

StoreRowsOf(kind, key) == {i \in DOMAIN tables[kind] : tables[kind][i].key = key}
StoreKeysIn(kind) == {tables[kind][i].key : i \in DOMAIN tables[kind]}

\* get_latest_trading_pairs: query(TradingPair).all() with no ordering, each
\* row overwriting the entry of its pair_name; the entry of a name is the row
\* of that name the database gave last, which can be any of them.
CallGetLatestTradingPairs ==
    \E given_last \in [StoreKeysIn("trading_pairs") -> DOMAIN tables["trading_pairs"]] :
        /\ \A n \in DOMAIN given_last : given_last[n] \in StoreRowsOf("trading_pairs", n)
        /\ ReadCall("get_latest_trading_pairs", "none",
                    [n \in DOMAIN given_last |-> tables["trading_pairs"][given_last[n]]])

\* load_user_preferences(session_id): the first row of the session, or None.
CallLoadUserPreferences ==
    \E session_id \in {SessionId, OtherSessionId} :
        LET rows == StoreRowsOf("user_preferences", session_id)
        IN  IF rows = {}
            THEN ReadCall("load_user_preferences", session_id, EmptyDict)
            ELSE \E first \in rows :
                    ReadCall("load_user_preferences", session_id,
                             [id \in {session_id} |-> tables["user_preferences"][first]])

\* The next statement of the call, in its transaction.
SessionExecute ==
    /\ session.open
    /\ session.todo # <<>>
    /\ session' = [session EXCEPT !.todo = Tail(@),
                                  !.work = Execute(Head(session.todo), @)]
    /\ store_call' = [store_call EXCEPT !.executed = @ + 1]
    /\ UNCHANGED <<tables, utc_day, store_calls>>

\* session.commit(), then session.close().
SessionCommit ==
    /\ session.open
    /\ session.todo = <<>>
    /\ tables' = session.work
    /\ session' = NoSession
    /\ store_call' = [store_call EXCEPT !.outcome = "ok"]
    /\ UNCHANGED <<utc_day, store_calls>>

\* A statement or the commit fails: rollback, raise, close.
SessionRaises ==
    /\ session.open
    /\ tables' = Rollback(tables, session.work)
    /\ session' = NoSession
    /\ store_call' = [store_call EXCEPT !.outcome = "raised", !.cause = "database"]
    /\ UNCHANGED <<utc_day, store_calls>>

\* The rows the tables start with: of the given ages in days, their keys
\* alternating.
InitAges == {<<>>, <<31>>, <<29>>, <<31, 30, 29>>, <<45, 0>>}

RowsAged(kind, ages) ==
    [i \in 1..Len(ages) |->
        [key |-> KeysOf(kind)[IF i % 2 = 1 THEN 1 ELSE 2], value |-> 1,
         timestamp |-> Today - ages[i]]]

InitStoreCalls ==
    /\ utc_day \in 1..31
    /\ \E ages \in InitAges :
        tables = [kind \in TableKinds |->
                    IF kind = "user_preferences"
                    THEN RowsAged(kind, SubSeq(ages, 1, IF Len(ages) > 2 THEN 2
                                                        ELSE Len(ages)))
                    ELSE RowsAged(kind, ages)]
    /\ session = NoSession
    /\ store_call = NoStoreCall
    /\ store_calls = 0

(***************************************************************************)
(* The coins selected in the sidebar of main, and the lists its later      *)
(* steps are given (SpecSelection).  The options are numbered in the order *)
(* of the multiselect's list.                                              *)
(***************************************************************************)
NumOptions == 12        \* supported coins offered by the multiselect

MaxSelectedCoins == 10          \* if len(st.session_state.selected_coins) > 10

Options == [i \in 1..NumOptions |-> i]
Reversed(q) == [i \in 1..Len(q) |-> q[Len(q) + 1 - i]]

\* What st.multiselect can return: the chosen options in the order of the
\* list, or in the opposite order.
Selections ==
    UNION {{SelectSeq(Options, LAMBDA c : c \in chosen),
            SelectSeq(Reversed(Options), LAMBDA c : c \in chosen)} :
                chosen \in SUBSET (1..NumOptions)}

\* Lines 291-293: selected_coins[:10] when there are more than 10.
CapSelectedCoinsAtEnd(selected_coins) ==
    IF Len(selected_coins) > MaxSelectedCoins
    THEN SubSeq(selected_coins, Len(selected_coins) - MaxSelectedCoins + 1,
                Len(selected_coins))
    ELSE selected_coins
CapSelectedCoins(selected_coins) ==
    IF Len(selected_coins) > MaxSelectedCoins
    THEN SubSeq(selected_coins, 1, MaxSelectedCoins)
    ELSE selected_coins

NoSelection == [pc |-> "select", selected_coin_names |-> <<>>,
                selected_coins |-> <<>>, saved |-> <<>>, priced |-> <<>>,
                charted |-> <<>>]

\* Lines 281-293: the multiselect, then st.session_state.selected_coins.
Multiselect ==
    /\ selection.pc = "select"
    /\ \E selected_coin_names \in Selections :
        selection' = [NoSelection EXCEPT
                        !.pc = "prefs",
                        !.selected_coin_names = selected_coin_names,
                        !.selected_coins = CapSelectedCoins(selected_coin_names)]

\* Lines 296-305: save_user_preferences is given selected_coins.
SaveSelectedCoins ==
    /\ selection.pc = "prefs"
    /\ selection' = [selection EXCEPT
                        !.pc = IF selection.selected_coins = <<>> THEN "done"
                               ELSE "prices",
                        !.saved = selection.selected_coins]

\* Lines 332-338: load_current_prices is given selected_coins; main returns
\* when it comes back empty.
PriceSelectedCoins ==
    /\ selection.pc = "prices"
    /\ \E current_prices \in BOOLEAN :
        selection' = [selection EXCEPT
                        !.pc = IF current_prices THEN "charts" ELSE "done",
                        !.priced = selection.selected_coins]

\* Lines 385-396: a chart for each of selected_coins, in order.
ChartSelectedCoins ==
    /\ selection.pc = "charts"
    /\ selection' = [selection EXCEPT !.pc = "done",
                                      !.charted = selection.selected_coins]

\* The script runs again; line 289 will replace selected_coins whatever it
\* holds, and the lists the run before was given are forgotten.
RerunSelection ==
    /\ selection.pc = "done"
    /\ selection' = NoSelection

InitSelection == selection = NoSelection

(***************************************************************************)
(* st.cache_data around the four loaders (SpecMemo): @st.cache_data(ttl=n) *)
(* keeps what a call returned under the loader and its arguments for n     *)
(* seconds; st.cache_data.clear() drops every entry.                       *)
(***************************************************************************)
MaxMemoCalls == 3       \* calls of loaders per behaviour

\* The decorators at lines 56, 66, 96 and 105.
TtlOneMinute(loader) == Tenths(60)
Ttl(loader) ==
    CASE loader = "load_supported_coins" -> Tenths(300)
      [] loader = "load_current_prices" -> Tenths(60)
      [] loader = "load_historical_data" -> Tenths(1800)
      [] loader = "load_trading_pairs" -> Tenths(60)

\* The calls: a loader and its arguments.
LoaderCalls ==
    {<<"load_supported_coins", "">>, <<"load_trading_pairs", "">>,
     <<"load_current_prices", "bitcoin">>, <<"load_current_prices", "bitcoin,ethereum">>,
     <<"load_historical_data", "bitcoin,7">>, <<"load_historical_data", "ethereum,7">>}

\* The moments the clock stops at: the start, and just before and at the end
\* of each ttl after it.
MemoTimes ==
    {StartTime + d : d \in {0, Tenths(60) - 1, Tenths(60), Tenths(300) - 1, Tenths(300),
                            Tenths(1800) - 1, Tenths(1800)}}

NoEntry == [at |-> 0 - 1, value |-> 0]
NoMemoCall == [key |-> <<"none", "">>, at |-> 0, body |-> FALSE, result |-> 0]

\* A call of a decorated loader: the entry's value when there is one younger
\* than the ttl, without evaluating the body; else whatever the body returns,
\* which becomes the entry.
CallLoader ==
    /\ memo_calls < MaxMemoCalls
    /\ memo_calls' = memo_calls + 1
    /\ \E key \in LoaderCalls :
        LET entry == cache_data[key]
        IN  IF entry.at >= 0 /\ now - entry.at < Ttl(key[1])
            THEN /\ memo_call' = [key |-> key, at |-> now, body |-> FALSE,
                                  result |-> entry.value]
                 /\ UNCHANGED cache_data
            ELSE \E result \in PriceValues :
                 /\ memo_call' = [key |-> key, at |-> now, body |-> TRUE,
                                  result |-> result]
                 /\ cache_data' = [cache_data EXCEPT ![key] =
                                        [at |-> now, value |-> result]]
    /\ UNCHANGED now

\* main, lines 319-321: "Refresh Now" is st.cache_data.clear().
ClearCacheData ==
    /\ \E key \in LoaderCalls : cache_data[key] # NoEntry
    /\ cache_data' = [key \in LoaderCalls |-> NoEntry]
    /\ UNCHANGED <<now, memo_call, memo_calls>>

\* Time passes.
Elapse ==
    /\ \E later \in MemoTimes : later > now /\ now' = later
    /\ UNCHANGED <<cache_data, memo_call, memo_calls>>

InitMemo ==
    /\ cache_data = [key \in LoaderCalls |-> NoEntry]
    /\ memo_call = NoMemoCall
    /\ memo_calls = 0

(***************************************************************************)
(* The specifications.                                                     *)
(***************************************************************************)
IdleThreads == InitThreads
IdleStore == InitStore /\ tz = 0 /\ db /\ coin_prices = <<>>
IdleClient == InitClient /\ last_request_time = 0
IdlePage == InitPage
IdleSelection == InitSelection
IdleMemo == InitMemo
IdleStoreCalls == InitStoreCalls /\ utc_day = 1 /\ tables = [kind \in TableKinds |-> <<>>]

otherThanApi == <<limiterVars, loaderVars, pageVars, storeVars, selectionVars, memoVars>>
otherThanLimiter ==
    <<prev_request_time, slots, slotHeld, op, opPc, opResult, crypto_data,
      exchange_data, http, pc, url, attempt, resp, outcomes, backoffs, tresult,
      trading_pairs, loaderVars, pageVars, storeVars, selectionVars, memoVars>>
otherThanLoader ==
    <<last_request_time, prev_request_time, slots, slotHeld, op, opPc, opResult,
      crypto_data, exchange_data, http, pc, url, attempt, resp, outcomes, backoffs,
      tresult, trading_pairs, limiterVars, pageVars, storeVars, selectionVars, memoVars>>

InitApi == InitClient /\ IdleThreads /\ IdleStore /\ IdlePage /\ IdleStoreCalls /\ IdleSelection /\ IdleMemo

NextApi ==
    \/ AcquireSlot /\ UNCHANGED otherThanApi
    \/ RaiseMaxRetries /\ UNCHANGED otherThanApi
    \/ SessionGet /\ UNCHANGED otherThanApi
    \/ Handle429 /\ UNCHANGED otherThanApi
    \/ HandleOk /\ UNCHANGED otherThanApi
    \/ HandleRequestException /\ UNCHANGED otherThanApi
    \/ GetSupportedCoins /\ UNCHANGED otherThanApi
    \/ GetSupportedCoinsReturn /\ UNCHANGED otherThanApi
    \/ GetCurrentPrices /\ UNCHANGED otherThanApi
    \/ GetCurrentPricesReturn /\ UNCHANGED otherThanApi
    \/ GetHistoricalData /\ UNCHANGED otherThanApi
    \/ GetHistoricalDataReturn /\ UNCHANGED otherThanApi
    \/ GetTradingPairs /\ UNCHANGED otherThanApi
    \/ GetTradingPairsCrypto /\ UNCHANGED otherThanApi
    \/ GetTradingPairsFiat /\ UNCHANGED otherThanApi
    \/ GetCryptoPairHistory /\ UNCHANGED otherThanApi
    \/ GetUnsupportedPairHistory /\ UNCHANGED otherThanApi
    \/ GetFiatPairHistory /\ UNCHANGED otherThanApi
    \/ GetFiatPairHistoryUsd /\ UNCHANGED otherThanApi
    \/ GetCoinInfo /\ UNCHANGED otherThanApi

SpecApi == InitApi /\ [][NextApi]_vars

\* The thread that called _make_request_with_retry keeps running: time.sleep
\* returns, session.get returns or raises within its timeout.
NextTransport ==
    \/ AcquireSlot
    \/ RaiseMaxRetries
    \/ SessionGet
    \/ Handle429
    \/ HandleOk
    \/ HandleRequestException

SpecApiFair == SpecApi /\ WF_apiVars(NextTransport)

InitLimiter == IdleClient /\ InitThreads /\ IdleStore /\ IdlePage /\ IdleStoreCalls /\ IdleSelection /\ IdleMemo

NextLimiter ==
    \/ \E t \in Threads : Enter(t) /\ UNCHANGED otherThanLimiter
    \/ \E t \in Threads : ReadClock(t) /\ UNCHANGED otherThanLimiter
    \/ \E t \in Threads : ReadLast(t) /\ UNCHANGED otherThanLimiter
    \/ \E t \in Threads : SleepIfEarly(t) /\ UNCHANGED otherThanLimiter
    \/ \E t \in Threads : WakeUp(t) /\ UNCHANGED otherThanLimiter
    \/ \E t \in Threads : RecordTime(t) /\ UNCHANGED otherThanLimiter
    \/ Tick /\ UNCHANGED otherThanLimiter

SpecLimiter == InitLimiter /\ [][NextLimiter]_vars

InitLoader == IdleClient /\ IdleThreads /\ InitStore /\ IdlePage /\ IdleStoreCalls /\ IdleSelection /\ IdleMemo

NextLoader ==
    \/ LoadCurrentPricesMemoized /\ UNCHANGED otherThanLoader
    \/ LoadCurrentPricesReadFails /\ UNCHANGED otherThanLoader
    \/ LoadCurrentPricesFromCache /\ UNCHANGED otherThanLoader
    \/ LoadCurrentPricesLive /\ UNCHANGED otherThanLoader
    \/ Sidebar /\ UNCHANGED otherThanLoader
    \/ RefreshNow /\ UNCHANGED otherThanLoader
    \/ Minute /\ UNCHANGED otherThanLoader

SpecLoader == InitLoader /\ [][NextLoader]_vars

\* The same on a host whose local time is UTC.
InitLoaderUtc == InitLoader /\ tz = 0

SpecLoaderUtc == InitLoaderUtc /\ [][NextLoader]_vars

otherThanPage ==
    <<last_request_time, prev_request_time, slots, slotHeld, op, opPc, opResult,
      crypto_data, exchange_data, http, pc, url, attempt, resp, outcomes, backoffs,
      tresult, trading_pairs, limiterVars, storeVars, selectionVars, memoVars>>

InitPageRuns ==
    /\ IdleClient /\ IdleThreads /\ InitPage /\ IdleStoreCalls /\ IdleSelection /\ IdleMemo
    /\ InitStore /\ tz = 0 /\ coin_prices = <<>>

NextPage ==
    \/ RunScript /\ UNCHANGED otherThanPage
    \/ SidebarDatabase /\ UNCHANGED otherThanPage
    \/ LoadSupportedCoins /\ UNCHANGED otherThanPage
    \/ SelectCoins /\ UNCHANGED otherThanPage
    \/ SavePreferences /\ UNCHANGED otherThanPage
    \/ ClickRefreshNow /\ UNCHANGED otherThanPage
    \/ MainContent /\ UNCHANGED otherThanPage
    \/ PricesMemoized /\ UNCHANGED otherThanPage
    \/ PricesReadFails /\ UNCHANGED otherThanPage
    \/ PricesFromCache /\ UNCHANGED otherThanPage
    \/ PricesLive /\ UNCHANGED otherThanPage
    \/ PairsMemoized /\ UNCHANGED otherThanPage
    \/ PairsReadFails /\ UNCHANGED otherThanPage
    \/ PairsFromCache /\ UNCHANGED otherThanPage
    \/ PairsLive /\ UNCHANGED otherThanPage
    \/ Charts /\ UNCHANGED otherThanPage
    \/ Rerun /\ UNCHANGED otherThanPage

SpecPage == InitPageRuns /\ [][NextPage]_vars

otherThanStore == <<apiVars, limiterVars, loaderVars, pageVars, selectionVars, memoVars>>

InitStoreSpec == IdleClient /\ IdleThreads /\ IdleStore /\ IdlePage /\ InitStoreCalls /\ IdleSelection /\ IdleMemo

NextStore ==
    \/ BeginStoreCoinPrices /\ UNCHANGED otherThanStore
    \/ BeginStoreTradingPairs /\ UNCHANGED otherThanStore
    \/ BeginStoreHistoricalData /\ UNCHANGED otherThanStore
    \/ BeginStorePairHistoricalData /\ UNCHANGED otherThanStore
    \/ BeginSaveUserPreferences /\ UNCHANGED otherThanStore
    \/ BeginCleanupOldData /\ UNCHANGED otherThanStore
    \/ CallGetLatestTradingPairs /\ UNCHANGED otherThanStore
    \/ CallLoadUserPreferences /\ UNCHANGED otherThanStore
    \/ SessionExecute /\ UNCHANGED otherThanStore
    \/ SessionCommit /\ UNCHANGED otherThanStore
    \/ SessionRaises /\ UNCHANGED otherThanStore

SpecStore == InitStoreSpec /\ [][NextStore]_vars

\* load_trading_pairs called again and again as time passes and the
\* checkbox changes, on a table that may hold rows already.
otherThanPairs ==
    <<last_request_time, prev_request_time, slots, slotHeld, op, opPc, opResult,
      crypto_data, exchange_data, http, pc, url, attempt, resp, outcomes, backoffs,
      tresult, trading_pairs, limiterVars, coin_prices, memo, loads, load,
      user_preferences, page, db_inits, storeVars, selectionVars, memoVars>>

InitPairs ==
    /\ IdleClient /\ IdleThreads /\ IdleStore /\ IdleStoreCalls /\ IdleSelection /\ IdleMemo
    /\ trading_pairs_table \in InitPairsTables
    /\ user_preferences = [id \in {SessionId} |-> NoPreferences]
    /\ pairs_memo = NoMemo
    /\ pairs_load = NoPairsLoad
    /\ page = NoPage
    /\ db_inits = 0

NextPairs ==
    \/ LoadTradingPairsMemoized /\ UNCHANGED otherThanPairs
    \/ LoadTradingPairsReadFails /\ UNCHANGED otherThanPairs
    \/ LoadTradingPairsFromCache /\ UNCHANGED otherThanPairs
    \/ LoadTradingPairsLive /\ UNCHANGED otherThanPairs
    \/ Sidebar /\ UNCHANGED <<trading_pairs_table, pairs_memo, pairs_load, otherThanPairs>>
    \/ Minute /\ UNCHANGED <<trading_pairs_table, pairs_memo, pairs_load, otherThanPairs>>

SpecPairs == InitPairs /\ [][NextPairs]_vars

otherThanMemo ==
    <<last_request_time, prev_request_time, slots, slotHeld, op, opPc, opResult,
      crypto_data, exchange_data, http, pc, url, attempt, resp, outcomes, backoffs,
      tresult, trading_pairs, limiterVars, loaderVars, pageVars, storeVars,
      selectionVars>>

InitMemoSpec ==
    /\ IdleClient /\ IdleThreads /\ IdleStore /\ IdlePage /\ IdleStoreCalls
    /\ IdleSelection /\ InitMemo

NextMemo ==
    \/ CallLoader /\ UNCHANGED otherThanMemo
    \/ ClearCacheData /\ UNCHANGED otherThanMemo
    \/ Elapse /\ UNCHANGED otherThanMemo

SpecMemo == InitMemoSpec /\ [][NextMemo]_vars

otherThanSelection == <<apiVars, limiterVars, loaderVars, pageVars, storeVars, memoVars>>

InitSelectionSpec ==
    /\ IdleClient /\ IdleThreads /\ IdleStore /\ IdlePage /\ IdleStoreCalls
    /\ InitSelection /\ IdleMemo

NextSelection ==
    \/ Multiselect /\ UNCHANGED otherThanSelection
    \/ SaveSelectedCoins /\ UNCHANGED otherThanSelection
    \/ PriceSelectedCoins /\ UNCHANGED otherThanSelection
    \/ ChartSelectedCoins /\ UNCHANGED otherThanSelection
    \/ RerunSelection /\ UNCHANGED otherThanSelection

SpecSelection == InitSelectionSpec /\ [][NextSelection]_vars

(***************************************************************************)
(* Properties of the retrying transport and the rate limiter (SpecApi).    *)
(***************************************************************************)
Failed(o) == o \in {"429", "err"}
Returned == pc = "ret"

\* C4: one call of _make_request_with_retry issues at most max_retries (3)
\* upstream attempts, whatever the outcomes; a call that raises has made
\* exactly max_retries attempts, all failed; no attempt follows a successful
\* one, and a call that returns a body ends with the successful attempt.
C4_AtMostMaxRetriesAttempts ==
    /\ Len(outcomes) <= 3
    /\ \A i \in 1..Len(outcomes) : outcomes[i] = "ok" => i = Len(outcomes)
    /\ (Returned /\ tresult.kind = "raised") =>
            /\ Len(outcomes) = 3
            /\ tresult.attempts = 3
            /\ \A i \in 1..3 : Failed(outcomes[i])
    /\ (Returned /\ tresult.kind = "ok") =>
            /\ outcomes[Len(outcomes)] = "ok"
            /\ tresult.attempts = Len(outcomes)

\* C4's case: a call that raised after a mix of 429 answers and failures.
C4_Witness ==
    /\ Returned
    /\ tresult.kind = "raised"
    /\ outcomes = <<"429", "err", "429">>

\* C5: every 429 answer is followed by a backoff sleep, of 5 * 2^a seconds at
\* 0-indexed attempt a, and the call does not end on a 429 while an attempt is
\* left; on 429, 429, success the call succeeds and its backoff sleeps are
\* exactly 5 s then 10 s.
C5_RateLimitBackoffSchedule ==
    /\ \A i \in 1..Len(outcomes) :
            (outcomes[i] = "429" /\ (i < Len(outcomes) \/ pc # "resp")) =>
                /\ i <= Len(backoffs)
                /\ backoffs[i] = (IF i = 1 THEN 50 ELSE IF i = 2 THEN 100 ELSE 200)
    /\ (Returned /\ outcomes[Len(outcomes)] = "429") => Len(outcomes) = 3
    /\ (Returned /\ outcomes = <<"429", "429", "ok">>) =>
            /\ tresult.kind = "ok"
            /\ backoffs = <<50, 100>>

\* C5's case: 429, 429, then success, and the call has returned.
C5_Witness ==
    /\ Returned
    /\ outcomes = <<"429", "429", "ok">>
    /\ tresult.kind = "ok"

\* C6: the backoff after a transport-level failure at 0-indexed attempt a that
\* is not the last is 2^a seconds; and every call that ends with its attempts
\* exhausted raises an error that carries the cause of the last attempt's
\* failure and the endpoint.
C6_RequestFailedCarriesCauseAndEndpoint ==
    /\ \A i \in 1..Len(backoffs) :
            outcomes[i] = "err" => backoffs[i] = (IF i = 1 THEN 10 ELSE 20)
    /\ (Returned /\ tresult.kind = "raised") =>
            /\ tresult.cause = outcomes[Len(outcomes)]
            /\ tresult.endpoint = url

\* C7: with the single caller, every upstream attempt of the transport used a
\* slot acquired for it, and each slot is recorded at least
\* min_request_interval (1.1 s) after the one before.
C7_SlotBeforeEveryAttempt ==
    /\ pc = "get" => slotHeld
    /\ \A h \in http : h.via = "retry" => h.slot
    /\ slots >= 1 => last_request_time - prev_request_time >= MinRequestInterval

\* C7's case: a retry whose slot had to be waited for, taken exactly 1.1 s
\* after the slot of the attempt before.
C7_Witness ==
    /\ pc = "get"
    /\ attempt >= 1
    /\ slots >= 2
    /\ last_request_time - prev_request_time = 11

\* C9: every outbound HTTP call of every client operation goes through the
\* retrying transport, with a slot of the rate limiter acquired for it.
C9_EveryCallThroughTransport ==
    \A h \in http : h.via = "retry" /\ h.slot

\* C10: a result of get_trading_pairs always has EUR/USD; when the body of the
\* exchange-rate lookup lacks rates, eur or value, holds a rate that is not
\* positive, or the request failed, the entry is 1.08 with change_24h = 0.
FiatLookupFailed ==
    \/ exchange_data.shape \in {"no_rates", "no_eur", "no_value", "raised"}
    \/ exchange_data.shape = "value" /\ exchange_data.value <= 0

C10_FiatPairNeverAbsent ==
    (op.name = "get_trading_pairs" /\ opPc = "returned" /\ opResult.kind = "ok") =>
        /\ "EUR/USD" \in DOMAIN opResult.value
        /\ FiatLookupFailed =>
            /\ opResult.value["EUR/USD"].price = <<108, 100>>
            /\ opResult.value["EUR/USD"].change_24h = 0

\* get_trading_pairs has returned a result.
TradingPairsReturned ==
    op.name = "get_trading_pairs" /\ opPc = "returned" /\ opResult.kind = "ok"

\* C11: when the exchange-rate lookup of get_trading_pairs raised (the request
\* failed after its retries, or reading the body raised), get_trading_pairs
\* returns normally, EUR/USD is 1.08 with change_24h = 0, and the crypto pairs
\* computed before the lookup are in the result unchanged, with nothing else.
C11_FiatLookupFailureIsAbsorbed ==
    (/\ op.name = "get_trading_pairs"
     /\ opPc = "returned"
     /\ exchange_data.shape \in {"raised", "no_value"}) =>
        /\ opResult.kind = "ok"
        /\ DOMAIN opResult.value = DOMAIN CryptoPairs(crypto_data) \cup {"EUR/USD"}
        /\ opResult.value["EUR/USD"].price = <<108, 100>>
        /\ opResult.value["EUR/USD"].change_24h = 0
        /\ \A p \in DOMAIN CryptoPairs(crypto_data) :
                opResult.value[p] = CryptoPairs(crypto_data)[p]

\* C11's case: the exchange-rate request failed on all its attempts after the
\* two crypto pairs were computed, and get_trading_pairs has returned.
C11_Witness ==
    /\ TradingPairsReturned
    /\ exchange_data.shape = "raised"
    /\ url = "exchange_rates"
    /\ tresult.kind = "raised"
    /\ "ETH/BTC" \in DOMAIN opResult.value

\* Two quotients <<n, d>> multiply to one.
Inverses(p, q) == p[1] * q[1] = p[2] * q[2]
\* The quotient <<n, d>> is the number a / b.
Equals(p, a, b) == p[1] * b = p[2] * a

C8_ConcurrentCallersSerialize ==
    \A i, j \in 1..Len(grants) :
        i < j => grants[j] - grants[i] >= MinRequestInterval

(***************************************************************************)
(* Properties of load_current_prices (SpecLoader, SpecLoaderUtc).          *)
(***************************************************************************)
\* The latest call ran the loader's body with the cache enabled and read it.
ReadTheCache == load.served # "memo" /\ load.cache_on /\ load.db_read = "ok"
\* The age of the row read for a coin, when the call checked it.
AgeOfRow(c) == load.at - load.rows[c].timestamp
ClientGotAllIds == load.client # "none" /\ load.client_ids = load.ids

\* C1: with the cache enabled, when a requested id has no cached row the
\* loader calls the client with the whole requested set, and does not return
\* the cached rows.
C1_PartialCoverageIsAMiss ==
    (ReadTheCache /\ \E c \in load.ids : c \notin DOMAIN load.cached) =>
        /\ ClientGotAllIds
        /\ load.served # "cache"

\* C2: with the cache enabled, when the cached row of a requested id is two
\* minutes old or older the loader calls the client; every row it serves from
\* the cache is less than two minutes old.
C2_StaleRowIsAMiss ==
    /\ (ReadTheCache /\ \E c \in DOMAIN load.cached : AgeOfRow(c) >= 1200) =>
            ClientGotAllIds
    /\ load.served = "cache" => \A c \in DOMAIN load.result : AgeOfRow(c) < 1200

\* C3: with the cache enabled, when every requested id has a cached row less
\* than two minutes old, the loader returns the cached rows without calling
\* the client and without an upstream request.
C3_FreshFullCoverageIsServed ==
    (/\ ReadTheCache
     /\ load.ids # {}
     /\ \A c \in load.ids : c \in DOMAIN load.cached /\ AgeOfRow(c) < 1200) =>
        /\ load.served = "cache"
        /\ load.result = load.cached
        /\ load.client = "none"
        /\ load.requests = 0

(***************************************************************************)
(* Properties of the loaders within the runs of the script (SpecPage).     *)
(***************************************************************************)
\* C13: in load_current_prices and load_trading_pairs, when the write-back
\* after a successful live fetch raised, the call returns, and what it
\* returns is exactly the data fetched.
C13_WriteBackFailureKeepsRead ==
    /\ load.db_write = "raised" =>
            /\ load.outcome = "returned"
            /\ load.client = "ok"
            /\ load.result = load.fetched
    /\ pairs_load.db_write = "raised" =>
            /\ pairs_load.outcome = "returned"
            /\ pairs_load.client = "ok"
            /\ pairs_load.result = pairs_load.fetched

\* C13's case: both write-backs of one run raised after fetches with data.
C13_Witness ==
    /\ load.db_write = "raised"
    /\ DOMAIN load.fetched = {"bitcoin", "ethereum"}
    /\ pairs_load.db_write = "raised"
    /\ DOMAIN pairs_load.fetched = PairNames
    /\ coin_prices = <<>>
    /\ trading_pairs_table = <<>>

\* C14: when the read of the Cache Store raised during a loader call, the
\* loader goes on to a live fetch through the client and returns what it
\* fetched.
C14_ReadFailureFallsBackToLive ==
    /\ load.db_read = "raised" =>
            /\ load.client # "none"
            /\ load.client = "ok" => load.result = load.fetched
    /\ pairs_load.db_read = "raised" =>
            /\ pairs_load.client # "none"
            /\ pairs_load.client = "ok" => pairs_load.result = pairs_load.fetched

\* C15: when the client raised during a loader call, the call ends raising
\* to its caller; it does not return a data result.
C15_ClientFailurePropagates ==
    /\ load.client = "raised" => load.outcome = "raised"
    /\ pairs_load.client = "raised" => pairs_load.outcome = "raised"

\* C16: in a run of main in which the load of some kind failed or gave
\* nothing, the pair rates, which depend on no other kind, are loaded all the
\* same, and so after a failure of the spot quotes; and every kind loaded
\* without failure is rendered.
C16_KindsFailIndependently ==
    (page.pc = "done" /\ page.failed # {}) =>
        /\ "pairs" \in page.loaded
        /\ "prices" \in page.failed => "pairs" \in page.loaded
        /\ \A k \in page.loaded \ page.failed : k \in page.rendered

\* The three tables the loaders and main write.
storeTables == <<coin_prices, trading_pairs_table, user_preferences>>

\* C17: while the cache is disabled (use_database false) or unavailable (no
\* database manager), no step performs a Cache Store operation: no latest
\* read, no write-back, no preference save, the tables unchanged; and a loader
\* call whose body runs goes to the client.
C17_NoStoreOperationWhenDisabled ==
    [][~(use_database /\ db) =>
            /\ UNCHANGED storeTables
            /\ page'.store_ops = page.store_ops
            /\ load' # load =>
                    /\ load'.db_read = "none" /\ load'.db_write = "none"
                    /\ load'.served \notin {"none", "memo"} => load'.client # "none"
            /\ pairs_load' # pairs_load =>
                    /\ pairs_load'.db_read = "none" /\ pairs_load'.db_write = "none"
                    /\ pairs_load'.served \notin {"none", "memo"} =>
                            pairs_load'.client # "none"]_vars

\* C17's case: a run completed with the box unticked on a working database
\* whose tables hold rows of an earlier run; both loaders fetched live.
C17_Witness ==
    /\ db /\ ~use_database
    /\ page.pc = "done"
    /\ page.run = 2
    /\ load.served = "live" /\ ~load.cache_on
    /\ pairs_load.served = "live" /\ ~pairs_load.cache_on
    /\ coin_prices # <<>>
    /\ trading_pairs_table # <<>>
    /\ user_preferences[SessionId].saved

\* C18: when the DatabaseManager could not be constructed, then from there
\* on: it is constructed once and no more, use_database is False past the
\* sidebar of every run, no Cache Store operation is attempted, the tables do
\* not change, and the loaders' calls are served live (or by their memo).
C18_FailedInitDisablesCacheForGood ==
    /\ [](~db =>
            /\ db_inits <= 1
            /\ page.pc \notin {"idle", "sidebar"} => ~use_database
            /\ page.store_ops = {}
            /\ load.served \in {"none", "memo", "live", "error"}
            /\ load.db_read = "none" /\ load.db_write = "none"
            /\ pairs_load.served \in {"none", "memo", "live", "error"}
            /\ pairs_load.db_read = "none" /\ pairs_load.db_write = "none")
    /\ [][~db => (~db' /\ UNCHANGED storeTables)]_vars

\* C18's case: the second run completed without a database manager, the
\* loaders having fetched live in it.
C18_Witness ==
    /\ ~db
    /\ db_inits = 1
    /\ page.run = 2
    /\ page.pc = "done"
    /\ load.served = "live"
    /\ pairs_load.served = "live"

(***************************************************************************)
(* Properties of the mutating calls of DatabaseManager (SpecStore).        *)
(***************************************************************************)
OlderThan(r, days) == r.timestamp < Today - days
Within(r) == ~OlderThan(r, 30)

\* C19: on every day of the month and for every content of the tables, once
\* cleanup_old_data(30) has ended without a failure of the database, no
\* pruned table holds a row older than 30 days, and the rows within the last
\* 30 days are the ones it held before, unchanged.
C19_CleanupPrunesOnAnyDay ==
    (/\ store_call.name = "cleanup_old_data"
     /\ store_call.arg = 30
     /\ store_call.outcome # "none"
     /\ store_call.cause # "database") =>
        \A kind \in PrunedKinds :
            /\ \A i \in DOMAIN tables[kind] : ~OlderThan(tables[kind][i], 30)
            /\ SelectSeq(tables[kind], Within) = SelectSeq(store_call.before[kind], Within)

\* C20: a mutating call is all-or-nothing: until it commits the tables are
\* as they were when it began; when a step of it fails the failure is raised
\* to the caller and the tables are those of before the call; when it
\* commits the tables hold the effect of all its statements.
C20_MutatingCallsAreAtomic ==
    /\ session.open => tables = store_call.before
    /\ store_call.outcome = "raised" => tables = store_call.before
    /\ store_call.outcome = "ok" =>
            /\ store_call.executed = Len(store_call.statements)
            /\ tables = ExecuteAll(store_call.statements, store_call.before)
    /\ (~session.open /\ store_call.name # "none") =>
            store_call.outcome \in {"ok", "raised"}

\* C20's case: store_historical_data failed after its delete removed an old
\* row and an add was issued.
C20_Witness ==
    /\ store_call.name = "store_historical_data"
    /\ store_call.outcome = "raised"
    /\ store_call.cause = "database"
    /\ store_call.executed = 2
    /\ Len(store_call.statements) = 3
    /\ \E i \in DOMAIN tables["historical_data"] :
            /\ OlderThan(tables["historical_data"][i], 30)
            /\ tables["historical_data"][i].key = "bitcoin"


(***************************************************************************)
(* Properties of the reads of DatabaseManager.                             *)
(***************************************************************************)
\* C21: a get_latest_coin_prices(ids) that returns gives an entry for the ids
\* that have rows in coin_prices and for no other; the entry of an id is made
\* from a row of that id with the greatest timestamp, and when one row alone
\* bears that timestamp it is the row inserted last.
C21_LatestIsNewestRow ==
    [][(load' # load /\ load'.db_read = "ok") =>
            /\ DOMAIN load'.cached = {c \in load'.ids : RowsOf(c) # {}}
            /\ \A c \in DOMAIN load'.cached :
                \E i \in RowsOf(c) :
                    /\ \A j \in RowsOf(c) :
                            coin_prices[j].timestamp <= coin_prices[i].timestamp
                    /\ load'.rows[c] = coin_prices[i]
                    /\ load'.cached[c].usd = coin_prices[i].price_usd
                    /\ (\A j \in RowsOf(c) \ {i} :
                            coin_prices[j].timestamp < coin_prices[i].timestamp)
                        => \A j \in RowsOf(c) : j <= i]_vars

\* C21's case: bitcoin has an old row at 1 and a newer row at 2, ethereum has
\* none; the read asked for both and gave the newer row of bitcoin alone.
C21_Witness ==
    /\ load.db_read = "ok"
    /\ load.ids = Coins
    /\ DOMAIN load.cached = {"bitcoin"}
    /\ load.cached["bitcoin"].usd = 2
    /\ Len(coin_prices) >= 2
    /\ coin_prices[1].coin_id = "bitcoin" /\ coin_prices[1].price_usd = 1
    /\ coin_prices[2].coin_id = "bitcoin" /\ coin_prices[2].price_usd = 2
    /\ coin_prices[1].timestamp < coin_prices[2].timestamp
    /\ load.rows["bitcoin"] = coin_prices[2]


\* C22: get_latest_trading_pairs gives an entry for every pair name that has
\* rows, and the entry of a name is made from the row of that name with the
\* greatest timestamp, in whatever order the database gave the rows.
C22_LatestPairIsNewestRow ==
    (store_call.name = "get_latest_trading_pairs" /\ store_call.outcome = "ok") =>
        /\ DOMAIN store_call.result = StoreKeysIn("trading_pairs")
        /\ \A n \in DOMAIN store_call.result :
            \A i \in StoreRowsOf("trading_pairs", n) :
                tables["trading_pairs"][i].timestamp <= store_call.result[n].timestamp

PreferencesOf(table, session_id) ==
    SelectSeq(table, LAMBDA r : r.key = session_id)
PreferencesOfOthers(table, session_id) ==
    SelectSeq(table, LAMBDA r : r.key # session_id)

\* C23: with the saves made one at a time, user_preferences holds one row at
\* most for a session id, and one exactly once it was saved; a save that
\* commits leaves in that row the values it was given and leaves the rows of
\* the other sessions as they were; load_user_preferences(session_id) gives
\* the values of the session's row, None when it has none, and right after a
\* save of that session the values saved.
C23_OnePreferencesRowPerSession ==
    /\ [](/\ \A id \in {SessionId, OtherSessionId} :
                Len(PreferencesOf(tables["user_preferences"], id)) <= 1
          /\ (store_call.name = "save_user_preferences" /\ store_call.outcome = "ok") =>
                LET session_id == store_call.statements[1].key
                    table == tables["user_preferences"]
                IN  /\ Len(PreferencesOf(table, session_id)) = 1
                    /\ PreferencesOf(table, session_id)[1].value = store_call.arg
                    /\ PreferencesOfOthers(table, session_id)
                        = PreferencesOfOthers(store_call.before["user_preferences"],
                                              session_id)
          /\ store_call.name = "load_user_preferences" =>
                LET rows == PreferencesOf(tables["user_preferences"], store_call.key)
                IN  /\ store_call.outcome = "ok"
                    /\ rows = <<>> => store_call.result = EmptyDict
                    /\ rows # <<>> =>
                            /\ DOMAIN store_call.result = {store_call.key}
                            /\ store_call.result[store_call.key].value = rows[1].value)
    /\ [][(/\ store_call.name = "save_user_preferences"
           /\ store_call.outcome = "ok"
           /\ store_call'.name = "load_user_preferences"
           /\ store_call'.key = store_call.statements[1].key) =>
                /\ DOMAIN store_call'.result = {store_call'.key}
                /\ store_call'.result[store_call'.key].value = store_call.arg]_vars

\* C23's case: the other session's row was there, this session's row was
\* saved with 2, and load_user_preferences of this session gave 2.
C23_Witness ==
    /\ store_call.name = "load_user_preferences"
    /\ store_call.key = SessionId
    /\ DOMAIN store_call.result = {SessionId}
    /\ store_call.result[SessionId].value = 2
    /\ Len(PreferencesOf(tables["user_preferences"], OtherSessionId)) = 1


(***************************************************************************)
(* Properties of the selection (SpecSelection).                            *)
(***************************************************************************)
FirstOf(q, n) == SubSeq(q, 1, IF Len(q) < n THEN Len(q) ELSE n)

\* C24: past the selection step selected_coins is the first min(n, 10) of
\* the n coins selected, in their order, never more than 10; and that list
\* is what save_user_preferences, load_current_prices and the charts are
\* given.
C24_SelectionCappedAtTen ==
    selection.pc # "select" =>
        LET effective == FirstOf(selection.selected_coin_names, 10)
        IN  /\ selection.selected_coins = effective
            /\ Len(selection.selected_coins) <= 10
            /\ selection.pc \notin {"prefs"} => selection.saved = effective
            /\ selection.pc = "charts" => selection.priced = effective
            /\ selection.priced \in {<<>>, effective}
            /\ selection.charted \in {<<>>, effective}

\* C24's case: 12 coins selected from the last to the first; the 10 first
\* selected were saved, priced and charted.
C24_Witness ==
    /\ selection.pc = "done"
    /\ Len(selection.selected_coin_names) = 12
    /\ selection.selected_coin_names[1] = 12
    /\ selection.selected_coins = <<12, 11, 10, 9, 8, 7, 6, 5, 4, 3>>
    /\ selection.saved = selection.selected_coins
    /\ selection.priced = selection.selected_coins
    /\ selection.charted = selection.selected_coins


(***************************************************************************)
(* Further properties of the client (SpecApi).                             *)
(***************************************************************************)
\* C25: get_current_prices called with no ids returns the empty mapping at
\* once, whatever the client's last_request_time: no slot of the rate limiter
\* is acquired, no upstream request is made, the retry loop is not entered.
C25_NoIdsNoRequest ==
    /\ [][(opPc = "idle" /\ op'.name = "get_current_prices" /\ op'.arg = {}) =>
            /\ opPc' = "returned"
            /\ opResult' = Ok({})
            /\ pc' = "none"
            /\ UNCHANGED <<now, slots, slotHeld, last_request_time, outcomes>>]_vars
    /\ []((op.name = "get_current_prices" /\ op.arg = {}) =>
            /\ opPc = "returned"
            /\ opResult = Ok({})
            /\ http = {}
            /\ slots = 0
            /\ outcomes = <<>>)

\* C25's case: get_current_prices([]) returned on a client whose last
\* request was made just now.
C25_Witness ==
    /\ op.name = "get_current_prices"
    /\ op.arg = {}
    /\ opPc = "returned"
    /\ opResult = Ok({})
    /\ last_request_time = StartTime


\* C26: a get_pair_historical_data for ETH/BTC, BTC/ETH or EUR/USD one of
\* whose upstream steps failed (request error, status not 2xx, body without
\* prices) does not raise: it returns the flat series at 1.08 with days * 24
\* points.
C26_PairHistoryFailureGivesFlatSeries ==
    (/\ op.name = "get_pair_historical_data"
     /\ op.arg.pair_name \in PairNames
     /\ opPc = "returned"
     /\ \E h \in http : h.outcome # "ok") =>
        /\ opResult.kind = "ok"
        /\ opResult.value = FlatSeries(24 * op.arg.days)


\* C27: every call of _make_request_with_retry that has begun comes to its
\* end, whatever the upstream answers; it makes 3 attempts and 3 sleeps of
\* backoff at most, and ends either returning the parsed body or raising to
\* its caller, never both and not before its end.
C27_RetryLoopTerminates ==
    /\ [](pc \in {"for", "get", "resp"} => <>(pc = "ret"))
    /\ [](/\ attempt <= 3
          /\ Len(outcomes) <= 3
          /\ Len(backoffs) <= 3
          /\ pc \in {"for", "get", "resp"} => tresult.kind = "none"
          /\ pc = "ret" => tresult.kind \in {"ok", "raised"}
          /\ (pc = "ret" /\ tresult.kind = "ok") => outcomes[Len(outcomes)] = "ok"
          /\ (pc = "ret" /\ tresult.kind = "raised") =>
                \A i \in DOMAIN outcomes : outcomes[i] # "ok")

\* C27's case: the call ended raising after three answers 429 and three
\* sleeps of backoff.
C27_Witness ==
    /\ pc = "ret"
    /\ outcomes = <<"429", "429", "429">>
    /\ Len(backoffs) = 3
    /\ tresult.kind = "raised"


(***************************************************************************)
(* Properties of load_trading_pairs over time (SpecPairs).                 *)
(***************************************************************************)
\* C28: with the cache enabled, a load_trading_pairs whose body runs and
\* reads the table serves the rows it read only when none of them is as old
\* as the freshness window (2 minutes); when the rows are older it calls the
\* client.  (Served rows are then never older than the window, and what the
\* memo repeats never older than the window plus its TTL.)
C28_PairRatesServedOnlyFresh ==
    (pairs_load.cache_on /\ pairs_load.db_read = "ok") =>
        /\ pairs_load.served = "cache" =>
                \A n \in DOMAIN pairs_load.rows :
                    pairs_load.at - pairs_load.rows[n].timestamp < 1200
        /\ pairs_load.served # "cache" => pairs_load.client # "none"


(***************************************************************************)
(* Further properties of a page run (SpecPage).                            *)
(***************************************************************************)
\* C29: with the cache enabled and available, a loader that fetched live
\* with success has attempted the write-back of what it fetched before it
\* returned, and unless that write failed the rows are in the table: so for
\* the spot quotes, the pair rates, and the historical series of the charts
\* (in the first run of a process nothing is memoized and every series drawn
\* was fetched live).
C29_LiveFetchIsWrittenBack ==
    /\ (load.served = "live" /\ load.cache_on /\ DOMAIN load.fetched # {}) =>
            /\ load.db_write \in {"ok", "raised"}
            /\ load.db_write = "ok" =>
                    \A c \in DOMAIN load.fetched :
                        \E i \in DOMAIN coin_prices :
                            /\ coin_prices[i].coin_id = c
                            /\ coin_prices[i].price_usd = load.fetched[c].usd
    /\ (/\ pairs_load.served = "live"
        /\ pairs_load.cache_on
        /\ DOMAIN pairs_load.fetched # {}) =>
            /\ pairs_load.db_write \in {"ok", "raised"}
            /\ pairs_load.db_write = "ok" =>
                    \A n \in DOMAIN pairs_load.fetched :
                        \E i \in DOMAIN trading_pairs_table :
                            /\ trading_pairs_table[i].pair_name = n
                            /\ trading_pairs_table[i].price = pairs_load.fetched[n].price
    /\ (/\ page.pc = "done"
        /\ page.run = 1
        /\ "charts" \in page.rendered
        /\ use_database /\ db) =>
            "store_historical_data" \in page.store_ops


(***************************************************************************)
(* C30: each loader is memoized by its arguments for its ttl (asset        *)
(* listing 300 s, spot quotes 60 s, pair rates 60 s, historical series     *)
(* 1800 s).  A call with the arguments of an earlier call less than the    *)
(* ttl ago, with no clear in between, returns what that call returned and  *)
(* does not evaluate the body (so no upstream request and no access to the *)
(* store); a call once the ttl has elapsed, or after Refresh Now cleared   *)
(* the entries, evaluates the body again, and what it returns is what the  *)
(* calls of the next ttl get.  Refresh Now leaves no entry behind.         *)
(***************************************************************************)
SpecTtl(loader) ==
    CASE loader = "load_supported_coins" -> 3000
      [] loader = "load_current_prices" -> 600
      [] loader = "load_trading_pairs" -> 600
      [] loader = "load_historical_data" -> 18000

C30_LoadersMemoizedForTtl ==
    /\ [][memo_calls' # memo_calls =>
            LET key == memo_call'.key
                entry == cache_data[key]
            IN  IF entry.at >= 0 /\ now - entry.at < SpecTtl(key[1])
                THEN /\ ~memo_call'.body
                     /\ memo_call'.result = entry.value
                     /\ cache_data' = cache_data
                ELSE /\ memo_call'.body
                     /\ cache_data'[key] = [at |-> now, value |-> memo_call'.result]
                     /\ \A other \in LoaderCalls \ {key} :
                            cache_data'[other] = cache_data[other]]_vars
    /\ [][memo_calls' = memo_calls /\ cache_data' # cache_data =>
            \A key \in LoaderCalls : cache_data'[key].at < 0]_vars

\* A chart's series served from the entry a tenth of a second before its
\* half hour is over, after the entry of the quotes had to be evaluated again.
C30_Witness ==
    /\ memo_call.key[1] = "load_historical_data"
    /\ ~memo_call.body
    /\ now - cache_data[memo_call.key].at = SpecTtl("load_historical_data") - 1
    /\ \E key \in LoaderCalls :
        /\ key[1] = "load_current_prices"
        /\ cache_data[key].at > StartTime


(***************************************************************************)
(* C31: the memoization holds only the results of successful loads.  After *)
(* a call of load_current_prices in which the client raised, the next call *)
(* with the same coin_ids less than the ttl later is not answered by       *)
(* st.cache_data with the empty result of the failed call: its body runs   *)
(* again.                                                                  *)
(***************************************************************************)
C31_FailedLoadIsNotMemoized ==
    [][(/\ loads' = loads + 1
        /\ load.client = "raised"
        /\ load'.ids = load.ids
        /\ load'.at - load.at < PricesTtl) =>
            load'.served # "memo"]_vars


(***************************************************************************)
(* C32: _make_request_with_retry never sleeps after its last attempt.  A   *)
(* call makes at most max_retries - 1 = 2 backoff sleeps, every backoff    *)
(* sleep is followed by another upstream attempt, and a call that has      *)
(* ended, whatever the outcome of its last attempt, has slept once less    *)
(* than it has made attempts.                                              *)
(***************************************************************************)
C32_NoSleepAfterLastAttempt ==
    /\ Len(backoffs) <= 2
    /\ Len(backoffs) <= Len(outcomes)
    /\ Returned => Len(backoffs) = Len(outcomes) - 1


(***************************************************************************)
(* C33: the freshness decision of load_current_prices depends only on the  *)
(* real age of the cached row, whatever the local time-zone offset of the  *)
(* process.  When the loader read the cache and found the row of one coin, *)
(* it serves the cached rows exactly when that row was stored less than    *)
(* two minutes before the call.                                            *)
(***************************************************************************)
C33_FreshnessIsTheRealAge ==
    ReadTheCache =>
        \A c \in DOMAIN load.cached :
            DOMAIN load.cached = {c} =>
                (load.served = "cache" <=> AgeOfRow(c) < 1200)

====
